---------------------------- MODULE Spec2Model ----------------------------
(***************************************************************************)
(* Call Tracking Detector (petethree/call-tracking-script-detector).       *)
(*                                                                         *)
(* The module models                                                       *)
(*   - the pure helpers of utils.js (phone normalising and formatting, URL *)
(*     matching against a provider descriptor), with strings as sequences  *)
(*     of one-character strings so that substring, suffix and wildcard     *)
(*     tests are computed character by character as the code does;         *)
(*   - the content script (state, detection passes, mutation observer,     *)
(*     debounced update, message handlers), the injected page-context      *)
(*     probe, the background worker's updateDetection handler and the      *)
(*     popup's status line;                                                *)
(*   - the simple content script (unnamed/part_001), which scans once the  *)
(*     page has loaded.                                                    *)
(***************************************************************************)
EXTENDS Naturals, Sequences, FiniteSets, TLC

VARIABLES
    \* ---- the page, as the content script sees it ----
    contextValid,     \* chrome.runtime.id is still defined
    body,             \* document.body exists
    readyState,       \* document.readyState
    dom,              \* the phone-bearing nodes under body, in document order
    scripts,          \* the script elements in the document (indices of ScriptPool)
    globals,          \* the tracker globals defined on window
    records,          \* mutation records queued for the observer callback
    \* ---- content script ----
    phase,            \* "loading" while loadProviders is awaited, then "ready"
    providers,
    originalNumbers,
    currentNumbers,
    detectedTrackers,
    scanComplete,
    mutationObserver, \* "null", "observing", or "created" (never subscribed)
    updateTimer,      \* the pending debounce timers of updateBadgeAndStorage
    reprobeTimers,    \* pending 3000 ms timers of detectGlobalVariables
    probes,           \* injected detector scripts that have not run yet
    dclListener,      \* the DOMContentLoaded listener is registered
    loadTimers,       \* pending 1000 ms timers of the load listener
    \* ---- result sinks ----
    inbox,            \* updateDetection messages on their way to the background
    stored,           \* chrome.storage.local entry of the page: <<>> or <<results>>
    badgeText,        \* <<>> for the empty badge, <<n>> for the text n
    tabProviders,     \* detectionResults.get(tabId).providers
    popupView,        \* what the popup displays
    \* ---- history ----
    loadFailed,       \* loadProviders ended in its catch block
    rescans,          \* rescan commands handled so far
    captured,         \* captureOriginalNumbers ran over a body since the last rescan
    scanned,          \* scanCurrentNumbers ran over a body
    lastUpdate,       \* the providerIds in the updateDetection message handled last
    pageEvents,       \* ChangeNode, AddScript, RemoveScript, DefineGlobal and
                      \* InvalidateContext steps so far
    \* ---- the content scripts with a delayed scan (SpecSimple, SpecContent) ----
    scanTimers,       \* pending timers of runDetection (3000 ms, 2000 ms)
    observers,        \* MutationObservers of content.js subscribed to the body
    callbacks,        \* observer callbacks run for the last mutation batch
    \* ---- history of timers and observer callbacks ----
    burstScans,       \* scanCurrentNumbers runs made by observer callbacks
                      \* since the debounce timer last fired
    stale,            \* what is pending from before the last rescan: load
                      \* and reprobe timers, and a subscribed observer;
                      \* followed until the first of them runs
    staleRan,         \* TRUE once a callback from before a rescan has run
    \* ---- side panel, background cookie handler, popup toggle ----
    panel,            \* the side panel: currentTabId, isScanning, what it
                      \* awaits and what it displays
    cookieJob,        \* one clearCookies request in the background
    blocking,         \* the blocking toggle of the popup and its request
    \* ---- pure-function harness ----
    fnIn,       \* the arguments of the call
    fnOut,      \* its result, once fnDone
    fnDone      \* whether the call has been made

pageVars == <<contextValid, body, readyState, dom, scripts, globals, records>>

scriptVars ==
    <<phase, providers, originalNumbers, currentNumbers, detectedTrackers,
      scanComplete, mutationObserver, updateTimer, reprobeTimers, probes,
      dclListener, loadTimers>>

sinkVars == <<inbox, stored, badgeText, tabProviders, popupView>>

historyVars ==
    <<loadFailed, rescans, captured, scanned, lastUpdate, pageEvents>>

mainVars == <<pageVars, scriptVars, sinkVars, historyVars>>

simpleVars == <<scanTimers, observers, callbacks>>

ghostVars == <<burstScans, stale, staleRan>>

uiVars == <<panel, cookieJob, blocking>>

fnVars == <<fnIn, fnOut, fnDone>>

vars == <<mainVars, simpleVars, ghostVars, uiVars, fnVars>>

-----------------------------------------------------------------------------
(* Strings: sequences of one-character strings.                            *)

UpperToLower ==
    ("A" :> "a") @@ ("B" :> "b") @@ ("C" :> "c") @@ ("D" :> "d") @@
    ("E" :> "e") @@ ("F" :> "f") @@ ("G" :> "g") @@ ("H" :> "h") @@
    ("I" :> "i") @@ ("J" :> "j") @@ ("K" :> "k") @@ ("L" :> "l") @@
    ("M" :> "m") @@ ("N" :> "n") @@ ("O" :> "o") @@ ("P" :> "p") @@
    ("Q" :> "q") @@ ("R" :> "r") @@ ("S" :> "s") @@ ("T" :> "t") @@
    ("U" :> "u") @@ ("V" :> "v") @@ ("W" :> "w") @@ ("X" :> "x") @@
    ("Y" :> "y") @@ ("Z" :> "z")

\* String.prototype.toLowerCase
ToLowerCase(s) ==
    [i \in 1..Len(s) |->
        IF s[i] \in DOMAIN UpperToLower THEN UpperToLower[s[i]] ELSE s[i]]

\* s.slice(from - 1, from - 1 + n), clipped like slice
Slice(s, from, n) ==
    IF from + n - 1 > Len(s) THEN SubSeq(s, from, Len(s))
    ELSE SubSeq(s, from, from + n - 1)

\* String.prototype.includes
Includes(s, sub) ==
    \E i \in 1..(Len(s) + 1) :
        /\ i + Len(sub) - 1 <= Len(s)
        /\ SubSeq(s, i, i + Len(sub) - 1) = sub

\* String.prototype.endsWith
EndsWith(s, suffix) ==
    /\ Len(suffix) <= Len(s)
    /\ SubSeq(s, Len(s) - Len(suffix) + 1, Len(s)) = suffix

\* String.prototype.startsWith
StartsWith(s, prefix) ==
    /\ Len(prefix) <= Len(s)
    /\ SubSeq(s, 1, Len(prefix)) = prefix

\* String.prototype.indexOf, 1-based, 0 when absent
IndexOf(s, sub) ==
    IF Includes(s, sub)
    THEN CHOOSE i \in 1..(Len(s) + 1) :
            /\ i + Len(sub) - 1 <= Len(s)
            /\ SubSeq(s, i, i + Len(sub) - 1) = sub
            /\ \A j \in 1..(i - 1) : SubSeq(s, j, j + Len(sub) - 1) # sub
    ELSE 0

\* The first position >= from of a character of set cs, Len(s) + 1 when none
FirstOf(s, from, cs) ==
    IF \E i \in from..Len(s) : s[i] \in cs
    THEN CHOOSE i \in from..Len(s) :
            /\ s[i] \in cs
            /\ \A j \in from..(i - 1) : s[j] \notin cs
    ELSE Len(s) + 1

Digits == {"0", "1", "2", "3", "4", "5", "6", "7", "8", "9"}

-----------------------------------------------------------------------------
(* utils.js: phone numbers.                                                *)

\* phone.replace(/\D/g, ''), '' for an absent or empty phone
NormalizePhone(phone) ==
    IF Len(phone) = 0 THEN <<>> ELSE SelectSeq(phone, LAMBDA c : c \in Digits)

\* formatPhone with the exchange cut one digit short: slice(3, 5)
FormatPhoneShortExchange(phone) ==
    LET digits == NormalizePhone(phone) IN
    IF Len(digits) = 10
    THEN <<"(">> \o Slice(digits, 1, 3) \o <<")", " ">> \o Slice(digits, 4, 2)
              \o <<"-">> \o Slice(digits, 7, 4)
    ELSE IF Len(digits) = 11 /\ digits[1] = "1"
    THEN <<"+", "1", " ", "(">> \o Slice(digits, 2, 3) \o <<")", " ">>
              \o Slice(digits, 5, 2) \o <<"-">> \o Slice(digits, 8, 4)
    ELSE phone

\* formatPhone returning the digits, not the input, for an unrecognized length
FormatPhoneNormalizing(phone) ==
    LET digits == NormalizePhone(phone) IN
    IF Len(digits) = 10
    THEN <<"(">> \o Slice(digits, 1, 3) \o <<")", " ">> \o Slice(digits, 4, 3)
              \o <<"-">> \o Slice(digits, 7, 4)
    ELSE IF Len(digits) = 11 /\ digits[1] = "1"
    THEN <<"+", "1", " ", "(">> \o Slice(digits, 2, 3) \o <<")", " ">>
              \o Slice(digits, 5, 3) \o <<"-">> \o Slice(digits, 8, 4)
    ELSE digits

\* formatPhone: the template strings of the two recognized lengths, the input
\* itself otherwise
FormatPhone(phone) ==
    LET digits == NormalizePhone(phone) IN
    IF Len(digits) = 10
    THEN <<"(">> \o Slice(digits, 1, 3) \o <<")", " ">> \o Slice(digits, 4, 3)
              \o <<"-">> \o Slice(digits, 7, 4)
    ELSE IF Len(digits) = 11 /\ digits[1] = "1"
    THEN <<"+", "1", " ", "(">> \o Slice(digits, 2, 3) \o <<")", " ">>
              \o Slice(digits, 5, 3) \o <<"-">> \o Slice(digits, 8, 4)
    ELSE phone

\* isValidPhone without the test of the leading digit
IsValidPhoneAnyEleven(phone) ==
    LET digits == NormalizePhone(phone) IN
    Len(digits) = 10 \/ Len(digits) = 11

IsValidPhone(phone) ==
    LET digits == NormalizePhone(phone) IN
    Len(digits) = 10 \/ (Len(digits) = 11 /\ digits[1] = "1")

\* phonesEqual comparing the raw strings
PhonesEqualRaw(phone1, phone2) == phone1 = phone2

PhonesEqual(phone1, phone2) == NormalizePhone(phone1) = NormalizePhone(phone2)

\* The tokens of a phone regex: "d" is \d, "1" the literal 1, and the optional
\* ones are "+?" (\+?), "(?" (\(?), ")?" (\)?) and "s?" ([-.\s]?, with the
\* space standing for \s).
OptionalTokens == {"+?", "(?", ")?", "s?"}

TokenMatches(tok, c) ==
    CASE tok = "d"  -> c \in Digits
      [] tok = "1"  -> c = "1"
      [] tok = "+?" -> c = "+"
      [] tok = "(?" -> c = "("
      [] tok = ")?" -> c = ")"
      [] tok = "s?" -> c \in {"-", ".", " "}

RECURSIVE MatchTokens(_, _, _, _)
\* The regex engine on a token sequence, from token k at position j of text:
\* the position after the match, 0 when there is none.  An optional token is
\* taken first (greedy) and skipped when the rest then fails (backtracking).
MatchTokens(toks, k, text, j) ==
    IF k > Len(toks) THEN j
    ELSE LET fits == j <= Len(text) /\ TokenMatches(toks[k], text[j])
             take == IF fits THEN MatchTokens(toks, k + 1, text, j + 1) ELSE 0
         IN IF toks[k] \in OptionalTokens /\ take = 0
            THEN MatchTokens(toks, k + 1, text, j)
            ELSE take

\* PHONE_REGEX = /(\+?1[-.\s]?)?\(?\d{3}\)?[-.\s]?\d{3}[-.\s]?\d{4}/g
PhonePrefixTokens == <<"+?", "1", "s?">>

PhoneCoreTokens ==
    <<"(?", "d", "d", "d", ")?", "s?", "d", "d", "d", "s?", "d", "d", "d", "d">>

\* One attempt of PHONE_REGEX at position j: with the optional group, then
\* without it
PhoneMatchEnd(text, j) ==
    LET withGroup == MatchTokens(PhonePrefixTokens \o PhoneCoreTokens, 1, text, j)
    IN IF withGroup # 0 THEN withGroup
       ELSE MatchTokens(PhoneCoreTokens, 1, text, j)

RECURSIVE MatchAll(_, _)
\* text.match(PHONE_REGEX): the matches from position j on, left to right
MatchAll(text, j) ==
    IF j > Len(text) THEN <<>>
    ELSE LET e == PhoneMatchEnd(text, j) IN
         IF e # 0 THEN <<SubSeq(text, j, e - 1)>> \o MatchAll(text, e)
         ELSE MatchAll(text, j + 1)

\* [...new Set(matches)]: each distinct match once, in order of first occurrence
Distinct(seq) ==
    LET firsts == {i \in 1..Len(seq) : \A j \in 1..(i - 1) : seq[j] # seq[i]}
        RECURSIVE Keep(_)
        Keep(i) == IF i > Len(seq) THEN <<>>
                   ELSE (IF i \in firsts THEN <<seq[i]>> ELSE <<>>) \o Keep(i + 1)
    IN Keep(1)

ExtractPhoneNumbers(text) ==
    IF Len(text) = 0 THEN <<>> ELSE Distinct(MatchAll(text, 1))

\* The observer's text.match(/\d{3}[-.\s]?\d{3}[-.\s]?\d{4}/)
ObserverTokens == <<"d", "d", "d", "s?", "d", "d", "d", "s?", "d", "d", "d", "d">>

HasPhoneShape(text) ==
    \E j \in 1..Len(text) : MatchTokens(ObserverTokens, 1, text, j) # 0

-----------------------------------------------------------------------------
(* utils.js: URL matching.                                                 *)

\* new URL(url): [ok, hostname, pathname, keys].  A string parses when it has
\* a scheme followed by "//"; the hostname is lowercased as the URL parser
\* does, the pathname defaults to "/", keys are the names of the search
\* parameters in order.  A scheme-less string throws (ok = FALSE).
SchemeMark == <<":", "/", "/">>

RECURSIVE SplitOn(_, _)
\* s.split(sep) for a one-character separator
SplitOn(s, sep) ==
    LET cut == FirstOf(s, 1, {sep}) IN
    IF cut > Len(s) THEN <<s>>
    ELSE <<SubSeq(s, 1, cut - 1)>> \o SplitOn(SubSeq(s, cut + 1, Len(s)), sep)

\* The key of one "key=value" part of a query string
ParamKey(part) == SubSeq(part, 1, FirstOf(part, 1, {"="}) - 1)

\* The parts of a parsed URL, from the positions of its host, path and search
ParsedUrl(url, hostStart, hostEnd, pathEnd, parts) ==
    [ok       |-> TRUE,
     hostname |-> ToLowerCase(SubSeq(url, hostStart, hostEnd - 1)),
     pathname |-> IF pathEnd > hostEnd THEN SubSeq(url, hostEnd, pathEnd - 1)
                  ELSE <<"/">>,
     keys     |-> [i \in 1..Len(parts) |-> ParamKey(parts[i])]]

\* The search string between "?" and the fragment, <<>> when there is none
SearchOf(url, pathEnd, fragStart) ==
    IF pathEnd <= Len(url) /\ url[pathEnd] = "?"
    THEN SubSeq(url, pathEnd + 1, fragStart - 1)
    ELSE <<>>

\* The non-empty "key=value" parts of a search string
SearchParts(search) ==
    IF search = <<>> THEN <<>>
    ELSE SelectSeq(SplitOn(search, "&"), LAMBDA x : x # <<>>)

ParseFromPath(url, hostStart, hostEnd, pathEnd) ==
    ParsedUrl(url, hostStart, hostEnd, pathEnd,
              SearchParts(SearchOf(url, pathEnd, FirstOf(url, hostEnd, {"#"}))))

ParseFromHost(url, hostStart, hostEnd) ==
    ParseFromPath(url, hostStart, hostEnd, FirstOf(url, hostEnd, {"?", "#"}))

\* mark is the position of "://" in url, 0 when absent
ParseFromMark(url, mark) ==
    IF mark <= 1
    THEN [ok |-> FALSE, hostname |-> <<>>, pathname |-> <<>>, keys |-> <<>>]
    ELSE ParseFromHost(url, mark + 3, FirstOf(url, mark + 3, {"/", "?", "#"}))

ParseUrl(url) == ParseFromMark(url, IndexOf(url, SchemeMark))

RECURSIVE MatchFrom(_, _, _, _)
\* Whether regex pattern p, from its i-th character, matches s starting at
\* position j.  The pattern is the wildcard pattern after the code's
\* translation: every character a literal (the metacharacters are escaped)
\* except '*', which became '.*'.
MatchFrom(p, i, s, j) ==
    IF i > Len(p) THEN TRUE
    ELSE IF p[i] = "*"
    THEN \E k \in j..(Len(s) + 1) : MatchFrom(p, i + 1, s, k)
    ELSE /\ j <= Len(s)
         /\ s[j] = p[i]
         /\ MatchFrom(p, i + 1, s, j + 1)

\* new RegExp(regexPattern).test(s): unanchored
RegexTest(p, s) == \E start \in 1..(Len(s) + 1) : MatchFrom(p, 1, s, start)

\* One pattern of matchesUrlPattern's patterns.some(...): lowerUrl and
\* normalizedPattern are the lowercased url and pattern, parsed is
\* new URL(lowerUrl)
PatternMatchesParsed(lowerUrl, normalizedPattern, parsed) ==
    IF parsed.ok
    THEN RegexTest(normalizedPattern, parsed.pathname)
    ELSE IF Includes(normalizedPattern, <<"*">>)
         THEN RegexTest(normalizedPattern, lowerUrl)
         ELSE Includes(lowerUrl, normalizedPattern)

\* The pattern tested against the whole URL, not its path
PatternMatchesWholeUrl(lowerUrl, normalizedPattern) ==
    RegexTest(normalizedPattern, lowerUrl)

PatternMatchesLower(lowerUrl, normalizedPattern) ==
    PatternMatchesParsed(lowerUrl, normalizedPattern, ParseUrl(lowerUrl))

PatternMatchesUrl(url, pattern) ==
    PatternMatchesLower(ToLowerCase(url), ToLowerCase(pattern))

MatchesUrlPattern(url, patterns) ==
    IF url = <<>> \/ Len(patterns) = 0 THEN FALSE
    ELSE \E i \in 1..Len(patterns) : PatternMatchesUrl(url, patterns[i])

\* One parameter name of matchesQueryParams's paramPatterns.some(...):
\* parsed is new URL(url), normalizedParam the lowercased name
ParamMatchesParsed(url, normalizedParam, parsed) ==
    IF parsed.ok
    THEN \E k \in 1..Len(parsed.keys) :
             Includes(ToLowerCase(parsed.keys[k]), normalizedParam)
    ELSE \/ Includes(ToLowerCase(url), <<"?">> \o normalizedParam \o <<"=">>)
         \/ Includes(ToLowerCase(url), <<"&">> \o normalizedParam \o <<"=">>)

ParamMatchesUrl(url, param) ==
    ParamMatchesParsed(url, ToLowerCase(param), ParseUrl(url))

MatchesQueryParams(url, paramPatterns) ==
    IF url = <<>> \/ Len(paramPatterns) = 0 THEN FALSE
    ELSE \E i \in 1..Len(paramPatterns) : ParamMatchesUrl(url, paramPatterns[i])

\* The value standing for an absent provider argument
NoProvider == [id |-> "none"]

\* The first element of seq that is in set hits, as <<x>>; <<>> when none
\* (Array.prototype.find)
FirstIn(seq, hits) ==
    IF \E i \in 1..Len(seq) : seq[i] \in hits
    THEN <<seq[CHOOSE i \in 1..Len(seq) :
                seq[i] \in hits /\ \A j \in 1..(i - 1) : seq[j] \notin hits]>>
    ELSE <<>>

\* The patterns of each kind that the URL matches: the predicate of the
\* code's some(...) and find(...) for that kind
DomainHits(url, provider) ==
    {provider.domains[i] : i \in {k \in 1..Len(provider.domains) :
        Includes(ToLowerCase(url), ToLowerCase(provider.domains[k]))}}

ScriptPatternHits(url, provider) ==
    {provider.scriptPatterns[i] : i \in {k \in 1..Len(provider.scriptPatterns) :
        Includes(ToLowerCase(url), ToLowerCase(provider.scriptPatterns[k]))}}

UrlPathHits(url, provider) ==
    {provider.urlPathPatterns[i] : i \in {k \in 1..Len(provider.urlPathPatterns) :
        MatchesUrlPattern(url, <<provider.urlPathPatterns[k]>>)}}

QueryParamHits(url, provider) ==
    {provider.queryParamPatterns[i] : i \in {k \in 1..Len(provider.queryParamPatterns) :
        MatchesQueryParams(url, <<provider.queryParamPatterns[k]>>)}}

\* The result of a successful check: matchedPattern is the find(...) over the
\* patterns of that kind
Matched(matchType, patterns, hits) ==
    [matches |-> TRUE, matchType |-> matchType,
     matchedPattern |-> FirstIn(patterns, hits)]

\* matchesTrackingUrl from its 4th check on (queryParamPatterns)
CheckQueryParams(url, provider) ==
    IF MatchesQueryParams(url, provider.queryParamPatterns)
    THEN Matched("queryParam", provider.queryParamPatterns,
                 QueryParamHits(url, provider))
    ELSE [matches |-> FALSE, matchType |-> "null", matchedPattern |-> <<>>]

\* matchesTrackingUrl from its 3rd check on (urlPathPatterns)
CheckUrlPath(url, provider) ==
    IF MatchesUrlPattern(url, provider.urlPathPatterns)
    THEN Matched("urlPath", provider.urlPathPatterns, UrlPathHits(url, provider))
    ELSE CheckQueryParams(url, provider)

\* matchesTrackingUrl from its 2nd check on (scriptPatterns); hits is the
\* set the some(...) and the find(...) of the check range over
CheckScriptPatterns(url, provider, hits) ==
    IF hits # {}
    THEN Matched("scriptPattern", provider.scriptPatterns, hits)
    ELSE CheckUrlPath(url, provider)

\* The checks with the script patterns tried before the domains
CheckDomainsAfterPatterns(url, provider, hits) ==
    LET first == CheckScriptPatterns(url, provider,
                                     ScriptPatternHits(url, provider))
    IN IF first.matches \/ hits = {} THEN first
       ELSE Matched("domain", provider.domains, hits)

\* matchesTrackingUrl from its 1st check on (domains)
CheckDomains(url, provider, hits) ==
    IF hits # {}
    THEN Matched("domain", provider.domains, hits)
    ELSE CheckScriptPatterns(url, provider, ScriptPatternHits(url, provider))

\* matchType is "null" for the initial null and "undefined" for the field the
\* early return leaves out; matchedPattern is <<pattern>> or <<>> (null/absent).
MatchesTrackingUrl(url, provider) ==
    IF url = <<>> \/ provider = NoProvider
    THEN [matches |-> FALSE, matchType |-> "undefined", matchedPattern |-> <<>>]
    ELSE CheckDomains(url, provider, DomainHits(url, provider))

-----------------------------------------------------------------------------
(* Test data: provider patterns, script URLs, inline scripts, phone texts. *)

\* "calltrk.com"
D_calltrk == <<"c", "a", "l", "l", "t", "r", "k", ".", "c", "o", "m">>
\* "callrail.com"
D_callrail == <<"c", "a", "l", "l", "r", "a", "i", "l", ".", "c", "o", "m">>
\* "tctm.co"
D_tctm == <<"t", "c", "t", "m", ".", "c", "o">>
\* "swap.js"
P_swap == <<"s", "w", "a", "p", ".", "j", "s">>
\* "/track/*"
P_track == <<"/", "t", "r", "a", "c", "k", "/", "*">>
\* "ctid"
P_ctid == <<"c", "t", "i", "d">>
\* "CallTrk"
G_calltrk == <<"C", "a", "l", "l", "T", "r", "k">>
\* "CallTrkSwap"
G_swap ==
    <<"C", "a", "l", "l", "T", "r", "k", "S", "w", "a", "p">>
\* "__ctm"
G_ctm == <<"_", "_", "c", "t", "m">>

\* "https://cdn.calltrk.com/ls.js"
U_cdn ==
    <<"h", "t", "t", "p", "s", ":", "/", "/", "c", "d", "n", ".", "c", "a",
      "l", "l", "t", "r", "k", ".", "c", "o", "m", "/", "l", "s", ".", "j",
      "s">>
\* "https://calltrk.com/ls.js"
U_exact ==
    <<"h", "t", "t", "p", "s", ":", "/", "/", "c", "a", "l", "l", "t", "r",
      "k", ".", "c", "o", "m", "/", "l", "s", ".", "j", "s">>
\* "HTTPS://CDN.CALLTRK.COM/LS.JS"
U_upper ==
    <<"H", "T", "T", "P", "S", ":", "/", "/", "C", "D", "N", ".", "C", "A",
      "L", "L", "T", "R", "K", ".", "C", "O", "M", "/", "L", "S", ".", "J",
      "S">>
\* "https://x.io/calltrk.com/a.js"
U_inPath ==
    <<"h", "t", "t", "p", "s", ":", "/", "/", "x", ".", "i", "o", "/", "c",
      "a", "l", "l", "t", "r", "k", ".", "c", "o", "m", "/", "a", ".", "j",
      "s">>
\* "https://x.io/a.js?r=calltrk.com"
U_inQuery ==
    <<"h", "t", "t", "p", "s", ":", "/", "/", "x", ".", "i", "o", "/", "a",
      ".", "j", "s", "?", "r", "=", "c", "a", "l", "l", "t", "r", "k", ".",
      "c", "o", "m">>
\* "https://notcalltrk.com/a.js"
U_label ==
    <<"h", "t", "t", "p", "s", ":", "/", "/", "n", "o", "t", "c", "a", "l",
      "l", "t", "r", "k", ".", "c", "o", "m", "/", "a", ".", "j", "s">>
\* "https://x.io/v2/Swap.js"
U_script ==
    <<"h", "t", "t", "p", "s", ":", "/", "/", "x", ".", "i", "o", "/", "v",
      "2", "/", "S", "w", "a", "p", ".", "j", "s">>
\* "https://x.io/track/abc123"
U_path ==
    <<"h", "t", "t", "p", "s", ":", "/", "/", "x", ".", "i", "o", "/", "t",
      "r", "a", "c", "k", "/", "a", "b", "c", "1", "2", "3">>
\* "https://x.io/tracking/abc"
U_tracking ==
    <<"h", "t", "t", "p", "s", ":", "/", "/", "x", ".", "i", "o", "/", "t",
      "r", "a", "c", "k", "i", "n", "g", "/", "a", "b", "c">>
\* "https://x.io/a.js?u=/track/a"
U_pathInQuery ==
    <<"h", "t", "t", "p", "s", ":", "/", "/", "x", ".", "i", "o", "/", "a",
      ".", "j", "s", "?", "u", "=", "/", "t", "r", "a", "c", "k", "/", "a">>
\* "https://x.io/a.js?a=1&CTID=7"
U_query ==
    <<"h", "t", "t", "p", "s", ":", "/", "/", "x", ".", "i", "o", "/", "a",
      ".", "j", "s", "?", "a", "=", "1", "&", "C", "T", "I", "D", "=", "7">>
\* "https://x.io/a.js?a=ctid"
U_queryValue ==
    <<"h", "t", "t", "p", "s", ":", "/", "/", "x", ".", "i", "o", "/", "a",
      ".", "j", "s", "?", "a", "=", "c", "t", "i", "d">>
\* "https://x.io/track/swap.js?ctid=1"
U_scriptPathQuery ==
    <<"h", "t", "t", "p", "s", ":", "/", "/", "x", ".", "i", "o", "/", "t",
      "r", "a", "c", "k", "/", "s", "w", "a", "p", ".", "j", "s", "?", "c",
      "t", "i", "d", "=", "1">>
\* "https://x.io/track/a.js?ctid=1"
U_pathQuery ==
    <<"h", "t", "t", "p", "s", ":", "/", "/", "x", ".", "i", "o", "/", "t",
      "r", "a", "c", "k", "/", "a", ".", "j", "s", "?", "c", "t", "i", "d",
      "=", "1">>
\* "https://calltrk.com/track/swap.js?ctid=1"
U_all ==
    <<"h", "t", "t", "p", "s", ":", "/", "/", "c", "a", "l", "l", "t", "r",
      "k", ".", "c", "o", "m", "/", "t", "r", "a", "c", "k", "/", "s", "w",
      "a", "p", ".", "j", "s", "?", "c", "t", "i", "d", "=", "1">>
\* "https://x.io/lib/app.js"
U_none ==
    <<"h", "t", "t", "p", "s", ":", "/", "/", "x", ".", "i", "o", "/", "l",
      "i", "b", "/", "a", "p", "p", ".", "j", "s">>
\* "//x.io/track/a?ctid=1"
U_noScheme ==
    <<"/", "/", "x", ".", "i", "o", "/", "t", "r", "a", "c", "k", "/", "a",
      "?", "c", "t", "i", "d", "=", "1">>
\* "https://tctm.co/t.js"
U_tctm ==
    <<"h", "t", "t", "p", "s", ":", "/", "/", "t", "c", "t", "m", ".", "c",
      "o", "/", "t", ".", "j", "s">>

\* "window.CallTrk.swap()"
T_inlineCalltrk ==
    <<"w", "i", "n", "d", "o", "w", ".", "C", "a", "l", "l", "T", "r", "k",
      ".", "s", "w", "a", "p", "(", ")">>
\* "var a = 1;"
T_inlinePlain == <<"v", "a", "r", " ", "a", " ", "=", " ", "1", ";">>

\* "(555) 123-4567"
R_paren ==
    <<"(", "5", "5", "5", ")", " ", "1", "2", "3", "-", "4", "5", "6", "7">>
\* "555.123.4567"
R_dots == <<"5", "5", "5", ".", "1", "2", "3", ".", "4", "5", "6", "7">>
\* "888-999-8888"
R_dash == <<"8", "8", "8", "-", "9", "9", "9", "-", "8", "8", "8", "8">>
\* "+1 800 555 1234"
R_plus ==
    <<"+", "1", " ", "8", "0", "0", " ", "5", "5", "5", " ", "1", "2", "3",
      "4">>
\* "2125550000"
R_plain == <<"2", "1", "2", "5", "5", "5", "0", "0", "0", "0">>
\* "5551234"
R_short == <<"5", "5", "5", "1", "2", "3", "4">>
\* "555.123.4567 (555) 123-4567"
R_twice == R_dots \o <<" ">> \o R_paren
\* "25551234567"
R_eleven == <<"2", "5", "5", "5", "1", "2", "3", "4", "5", "6", "7">>

\* Two entries of the provider table (providers.json), by the fields the
\* content script reads.
CallRail ==
    [id |-> "callrail", name |-> "CallRail",
     domains |-> <<D_callrail, D_calltrk>>,
     scriptPatterns |-> <<P_swap>>,
     urlPathPatterns |-> <<P_track>>,
     queryParamPatterns |-> <<P_ctid>>,
     signatures |-> <<G_calltrk>>,
     globalVariables |-> <<G_calltrk, G_swap>>]

CallTrackingMetrics ==
    [id |-> "ctm", name |-> "CallTrackingMetrics",
     domains |-> <<D_tctm>>,
     scriptPatterns |-> <<>>,
     urlPathPatterns |-> <<>>,
     queryParamPatterns |-> <<>>,
     signatures |-> <<G_ctm>>,
     globalVariables |-> <<G_ctm>>]

ProviderTable == <<CallRail, CallTrackingMetrics>>

-----------------------------------------------------------------------------
(* Content script: the swap detector.                                      *)
(* A number map (originalNumbers, currentNumbers) is the sequence of its   *)
(* entries in insertion order, the order Map iterates in; key is the key   *)
(* an entry was set under, the other fields are its value.                 *)

\* map.keys()
KeysOf(map) == {map[i].key : i \in 1..Len(map)}

\* !currentNumberSet.has(origKey)
Disappeared(origKey, current) == origKey \notin KeysOf(current)

AppearedAlways(currKey, original) == TRUE

\* !originalNumberSet.has(currKey)
Appeared(currKey, original) == currKey \notin KeysOf(original)

RECURSIVE PairWithAppeared(_, _, _, _)
\* The inner currentNumberSet.forEach for one disappeared original entry,
\* from the j-th current entry on
PairWithAppeared(orig, original, current, j) ==
    IF j > Len(current) THEN <<>>
    ELSE (IF Appeared(current[j].key, original)
          THEN <<[original           |-> orig.formatted,
                  tracking           |-> current[j].formatted,
                  originalNormalized |-> orig.key,
                  trackingNormalized |-> current[j].key,
                  locations          |-> orig.locations]>>
          ELSE <<>>)
         \o PairWithAppeared(orig, original, current, j + 1)

RECURSIVE SwapsFrom(_, _, _)
\* The outer originalNumberSet.forEach, from the i-th original entry on
SwapsFrom(original, current, i) ==
    IF i > Len(original) THEN <<>>
    ELSE (IF Disappeared(original[i].key, current)
          THEN PairWithAppeared(original[i], original, current, 1)
          ELSE <<>>)
         \o SwapsFrom(original, current, i + 1)

DetectNumberSwaps(original, current) == SwapsFrom(original, current, 1)

-----------------------------------------------------------------------------
(* The page.                                                               *)

\* A phone-bearing node under body: a text node (text is its textContent) or
\* an <a href="tel:..."> link (text is the href after "tel:"); location is
\* what getElementLocation answers for it.
NoNode == [kind |-> "none", text |-> <<>>, location |-> "none"]

TextNode(text, location) == [kind |-> "text", text |-> text, location |-> location]

TelLink(number, location) == [kind |-> "tel", text |-> number, location |-> location]

\* What the page can put into a slot: a tracking number, a tel: link
PageNodes == {TextNode(R_dash, "Content"), TelLink(R_plus, "Content")}

EmptyDom == <<NoNode, NoNode>>

\* The pages the content script can start on
InitialDoms ==
    {EmptyDom,
     <<TextNode(R_paren, "Header"), TextNode(R_dots, "Content")>>,
     <<TextNode(R_twice, "Footer"), TelLink(R_eleven, "Content")>>}

\* The script elements a page can hold, in document order: an external
\* script of CallRail, an external script of CallTrackingMetrics, and an
\* inline script with CallRail's signature
ScriptPool ==
    <<[src |-> U_cdn, text |-> <<>>],
      [src |-> U_tctm, text |-> <<>>],
      [src |-> <<>>, text |-> T_inlineCalltrk]>>

\* The scripts of the page when the content script starts
InitialScripts == {1, 3}

PageGlobals == {G_calltrk}

-----------------------------------------------------------------------------
(* Content script: phone numbers.                                          *)

\* utils.js findPhoneNumbersInElement: the results for the valid phones of
\* one text node
ValidResults(valid, element) ==
    [i \in 1..Len(valid) |->
        [phone      |-> valid[i],
         formatted  |-> FormatPhone(valid[i]),
         normalized |-> NormalizePhone(valid[i]),
         element    |-> element,
         isTelLink  |-> FALSE]]

\* utils.js findPhoneNumbersInElement, one text node of the walker
TextResults(node, element) ==
    ValidResults(SelectSeq(ExtractPhoneNumbers(node.text), IsValidPhone), element)

\* utils.js findPhoneNumbersInElement, one a[href^="tel:"] link
TelResults(node, element) ==
    LET phone == NormalizePhone(node.text)
    IN IF IsValidPhone(phone)
       THEN <<[phone      |-> FormatPhone(phone),
               formatted  |-> FormatPhone(phone),
               normalized |-> phone,
               element    |-> element,
               isTelLink  |-> TRUE]>>
       ELSE <<>>

RECURSIVE ResultsFrom(_, _, _)
\* The results for the nodes of one kind from slot s on, in document order
ResultsFrom(d, kind, s) ==
    IF s > Len(d) THEN <<>>
    ELSE (IF d[s].kind # kind THEN <<>>
          ELSE IF kind = "text" THEN TextResults(d[s], s)
          ELSE TelResults(d[s], s))
         \o ResultsFrom(d, kind, s + 1)

\* The text matches first, then the tel: links
FindPhoneNumbersInElement(d) ==
    ResultsFrom(d, "text", 1) \o ResultsFrom(d, "tel", 1)

GetElementLocation(d, element) == d[element].location

\* The position of a key in a number map, 0 when the map has no such key
KeyIndex(map, key) ==
    IF key \in KeysOf(map)
    THEN CHOOSE i \in 1..Len(map) : map[i].key = key
    ELSE 0

\* existing.locations.push(location) with no test of what the list holds
WithLocationAlways(locations, location) == Append(locations, location)

\* existing.locations.push(location) unless it is included already
WithLocation(locations, location) ==
    IF \E i \in 1..Len(locations) : locations[i] = location
    THEN locations
    ELSE Append(locations, location)

RECURSIVE CaptureFrom(_, _, _, _, _)
\* captureOriginalNumbers, the forEach from result i on; scan tags the entry
\* with the number of rescans handled when it was made
CaptureFrom(map, results, d, i, scan) ==
    IF i > Len(results) THEN map
    ELSE LET r == results[i]
             at == KeyIndex(map, r.normalized)
             location == GetElementLocation(d, r.element)
         IN IF at = 0
            THEN CaptureFrom(
                     Append(map, [key        |-> r.normalized,
                                  phone      |-> r.phone,
                                  formatted  |-> r.formatted,
                                  normalized |-> r.normalized,
                                  element    |-> r.element,
                                  isTelLink  |-> r.isTelLink,
                                  locations  |-> <<location>>,
                                  scan       |-> scan]),
                     results, d, i + 1, scan)
            ELSE CaptureFrom(
                     [map EXCEPT ![at].locations = WithLocation(@, location)],
                     results, d, i + 1, scan)

CaptureOriginalNumbers(map, d, scan) ==
    CaptureFrom(map, FindPhoneNumbersInElement(d), d, 1, scan)

RECURSIVE ScanFrom(_, _, _, _, _)
\* scanCurrentNumbers, the forEach from result i on
ScanFrom(map, results, d, i, scan) ==
    IF i > Len(results) THEN map
    ELSE LET r == results[i]
             at == KeyIndex(map, r.normalized)
             location == GetElementLocation(d, r.element)
         IN IF at = 0
            THEN ScanFrom(
                     Append(map, [key        |-> r.normalized,
                                  phone      |-> r.phone,
                                  formatted  |-> r.formatted,
                                  normalized |-> r.normalized,
                                  element    |-> r.element,
                                  isTelLink  |-> r.isTelLink,
                                  count      |-> 1,
                                  locations  |-> <<location>>,
                                  scan       |-> scan]),
                     results, d, i + 1, scan)
            ELSE ScanFrom(
                     [map EXCEPT ![at].count = @ + 1,
                                 ![at].locations = WithLocation(@, location)],
                     results, d, i + 1, scan)

\* currentNumbers.clear() and the refill
ScanCurrentNumbers(d, scan) ==
    ScanFrom(<<>>, FindPhoneNumbersInElement(d), d, 1, scan)

-----------------------------------------------------------------------------
(* Content script: tracker detection.                                      *)

\* "inline script"
S_inline ==
    <<"i", "n", "l", "i", "n", "e", " ", "s", "c", "r", "i", "p", "t">>
\* "global variable"
S_global ==
    <<"g", "l", "o", "b", "a", "l", " ", "v", "a", "r", "i", "a", "b", "l",
      "e">>

\* The script elements of the document with (external) or without (inline) a
\* src, in document order
ScriptsOf(present, external) ==
    SelectSeq([i \in 1..Len(ScriptPool) |-> i],
              LAMBDA i : i \in present /\ (Len(ScriptPool[i].src) > 0) = external)

\* The entry detectTrackingScripts pushes for a script and a provider whose
\* matchesTrackingUrl result is matchResult: none when it does not match
ExternalEntry(script, provider, matchResult, scan) ==
    IF matchResult.matches
    THEN <<[provider       |-> provider.name,
            providerId     |-> provider.id,
            scriptUrl      |-> ScriptPool[script].src,
            element        |-> script,
            matchType      |-> matchResult.matchType,
            matchedPattern |-> matchResult.matchedPattern,
            isInline       |-> FALSE,
            globalVariable |-> <<>>,
            scan           |-> scan]>>
    ELSE <<>>

RECURSIVE ExternalFrom(_, _, _, _)
\* detectTrackingScripts, the scripts.forEach / providers.forEach nest from
\* its k-th (script, provider) pair on
ExternalFrom(srcs, provs, k, scan) ==
    IF k > Len(srcs) * Len(provs) THEN <<>>
    ELSE ExternalEntry(srcs[((k - 1) \div Len(provs)) + 1],
                       provs[((k - 1) % Len(provs)) + 1],
                       MatchesTrackingUrl(
                           ScriptPool[srcs[((k - 1) \div Len(provs)) + 1]].src,
                           provs[((k - 1) % Len(provs)) + 1]),
                       scan)
         \o ExternalFrom(srcs, provs, k + 1, scan)

MatchesSignature(content, provider) ==
    \E i \in 1..Len(provider.signatures) :
        Includes(content, ToLowerCase(provider.signatures[i]))

RECURSIVE InlineFrom(_, _, _, _, _)
\* detectTrackingScripts, the inlineScripts.forEach / providers.forEach nest
\* from its k-th pair on; detectedProviders is the pass's local Set
InlineFrom(inlines, provs, k, detectedProviders, scan) ==
    IF k > Len(inlines) * Len(provs) THEN <<>>
    ELSE LET script == inlines[((k - 1) \div Len(provs)) + 1]
             provider == provs[((k - 1) % Len(provs)) + 1]
             content == ToLowerCase(ScriptPool[script].text)
         IN IF MatchesSignature(content, provider)
               /\ provider.id \notin detectedProviders
            THEN <<[provider       |-> provider.name,
                    providerId     |-> provider.id,
                    scriptUrl      |-> S_inline,
                    element        |-> script,
                    matchType      |-> "undefined",
                    matchedPattern |-> <<>>,
                    isInline       |-> TRUE,
                    globalVariable |-> <<>>,
                    scan           |-> scan]>>
                 \o InlineFrom(inlines, provs, k + 1,
                               detectedProviders \cup {provider.id}, scan)
            ELSE InlineFrom(inlines, provs, k + 1, detectedProviders, scan)

ProviderIds(trackers) == {trackers[i].providerId : i \in 1..Len(trackers)}

\* detectTrackingScripts after the external scripts: external holds their
\* entries, whose providers are the pass's detectedProviders so far
DetectInline(trackers, external, provs, present, scan) ==
    trackers \o external
    \o InlineFrom(ScriptsOf(present, FALSE), provs, 1, ProviderIds(external),
                  scan)

\* detectTrackingScripts: detectedTrackers after the pushes of one pass
DetectTrackingScripts(trackers, provs, present, scan) ==
    DetectInline(trackers,
                 ExternalFrom(ScriptsOf(present, TRUE), provs, 1, scan),
                 provs, present, scan)

RECURSIVE FoundFrom(_, _, _)
\* The injected detector: varsToCheck is the flatMap of the providers'
\* globalVariables; the items whose variable is defined on window, from the
\* k-th provider on
FoundFrom(provs, defined, k) ==
    IF k > Len(provs) THEN <<>>
    ELSE LET found == SelectSeq(provs[k].globalVariables,
                                LAMBDA v : v \in defined)
         IN [i \in 1..Len(found) |->
                [provider   |-> provs[k].name,
                 providerId |-> provs[k].id,
                 variable   |-> found[i]]]
            \o FoundFrom(provs, defined, k + 1)

AlreadyDetectedNever(trackers, item) == FALSE

\* The listener's alreadyDetected test
AlreadyDetected(trackers, item) ==
    \E i \in 1..Len(trackers) :
        /\ trackers[i].providerId = item.providerId
        /\ trackers[i].matchType = "globalVariable"
        /\ trackers[i].globalVariable = item.variable

RECURSIVE MergeFound(_, _, _, _)
\* The trackingVariablesFound listener, the forEach from item k on
MergeFound(trackers, found, k, scan) ==
    IF k > Len(found) THEN trackers
    ELSE IF AlreadyDetected(trackers, found[k])
         THEN MergeFound(trackers, found, k + 1, scan)
         ELSE MergeFound(
                  Append(trackers,
                         [provider       |-> found[k].provider,
                          providerId     |-> found[k].providerId,
                          scriptUrl      |-> S_global,
                          element        |-> 0,
                          matchType      |-> "globalVariable",
                          matchedPattern |-> <<found[k].variable>>,
                          isInline       |-> FALSE,
                          globalVariable |-> found[k].variable,
                          scan           |-> scan]),
                  found, k + 1, scan)

-----------------------------------------------------------------------------
(* Content script, background worker and popup: the state machine.         *)

MaxRescans == 1
MaxPageEvents == 1
MaxTimers == 2
MaxProbes == 1
MaxInbox == 1

\* The record updateBadgeAndStorage emits (url and timestamp left out)
Results ==
    [detectedTrackers    |-> detectedTrackers,
     originalNumbers     |-> originalNumbers,
     currentNumbers      |-> currentNumbers,
     swaps               |-> DetectNumberSwaps(originalNumbers, currentNumbers),
     uniqueProviderCount |-> Cardinality(ProviderIds(detectedTrackers))]

\* The answer of the getDetection handler
DetectionResponse ==
    [detectedTrackers |-> detectedTrackers,
     originalNumbers  |-> originalNumbers,
     currentNumbers   |-> currentNumbers,
     swaps            |-> DetectNumberSwaps(originalNumbers, currentNumbers),
     scanComplete     |-> scanComplete]

\* popup displayResults: the status line is rewritten only when scanComplete;
\* displayTrackers always rewrites the tracker count and the list
DisplayResults(view, data) ==
    LET trackerCount == Len(data.detectedTrackers)
        swapCount == Len(data.swaps)
    IN [status      |-> IF ~data.scanComplete THEN view.status
                        ELSE IF trackerCount > 0 \/ swapCount > 0
                             THEN "Tracker(s) Detected"
                             ELSE "No Tracking Detected",
        statusCount |-> IF ~data.scanComplete THEN view.statusCount
                        ELSE IF trackerCount > 0 \/ swapCount > 0
                             THEN <<trackerCount>>
                             ELSE <<>>,
        trackerCount |-> trackerCount,
        shownIds     |-> ProviderIds(data.detectedTrackers)]

\* background updateBadge(tabId, count)
UpdateBadge(count) == IF count > 0 THEN <<count>> ELSE <<>>

\* background updateDetection handler: the badge text it leaves
BadgeFor(data) ==
    LET trackerCount == Len(data.detectedTrackers)
        swapCount == Len(data.swaps)
    IN IF trackerCount > 0 \/ swapCount > 0
       THEN UpdateBadge(trackerCount)
       ELSE <<>>

\* The state of the harness variables while the content script runs, and of
\* the content script's variables while a pure function is exercised
FnIdle == fnIn = <<>> /\ fnOut = <<>> /\ fnDone = TRUE

NoneStale == [load |-> 0, reprobe |-> 0, observer |-> FALSE]

\* The side panel before its DOMContentLoaded listener has run, no
\* clearCookies request, the popup toggle untouched
UiIdle ==
    /\ panel = [currentTabId |-> 0, isScanning |-> FALSE, changing |-> 0,
                loading |-> 0, storage |-> 0, timers |-> 0, shown |-> 0,
                shownFor |-> 0, events |-> 0]
    /\ cookieJob = [phase |-> "idle", found |-> 0, completed |-> {},
                    deleted |-> {}, removed |-> 0, response |-> <<>>,
                    completedAtResponse |-> {}]
    /\ blocking = [ui |-> "none", checked |-> FALSE, previous |-> FALSE,
                   rulesets |-> FALSE, request |-> "none", answer |-> <<>>,
                   failed |-> "none", reloaded |-> FALSE,
                   errorShown |-> FALSE, toggles |-> 0]

GhostIdle ==
    /\ burstScans = 0
    /\ stale = NoneStale
    /\ staleRan = FALSE

MainIdle ==
    /\ contextValid = TRUE /\ body = FALSE /\ readyState = "loading"
    /\ dom = EmptyDom /\ scripts = {} /\ globals = {} /\ records = {}
    /\ phase = "loading" /\ providers = <<>>
    /\ originalNumbers = <<>> /\ currentNumbers = <<>>
    /\ detectedTrackers = <<>> /\ scanComplete = FALSE
    /\ mutationObserver = "null" /\ updateTimer = 0
    /\ reprobeTimers = 0 /\ probes = 0
    /\ dclListener = FALSE /\ loadTimers = 0
    /\ inbox = <<>> /\ stored = <<>> /\ badgeText = <<>>
    /\ tabProviders = {}
    /\ popupView = [status |-> "", statusCount |-> <<>>, trackerCount |-> 0,
                    shownIds |-> {}]
    /\ loadFailed = FALSE /\ rescans = 0 /\ captured = FALSE
    /\ scanned = FALSE /\ lastUpdate = <<>>
    /\ pageEvents = 0
    /\ scanTimers = 0 /\ observers = 0 /\ callbacks = 0
    /\ GhostIdle
    /\ UiIdle

\* The content script has run its top level at document_start with a valid
\* extension context: the listeners are registered and initialize() awaits
\* loadProviders().  The parser has not reached <body> yet.
Init ==
    /\ contextValid = TRUE
    /\ body = FALSE /\ readyState = "loading" /\ dom = EmptyDom
    /\ scripts = InitialScripts
    /\ globals = {}
    /\ records = {}
    /\ phase = "loading" /\ providers = <<>>
    /\ originalNumbers = <<>> /\ currentNumbers = <<>>
    /\ detectedTrackers = <<>> /\ scanComplete = FALSE
    /\ mutationObserver = "null" /\ updateTimer = 0
    /\ reprobeTimers = 0 /\ probes = 0
    /\ dclListener = FALSE /\ loadTimers = 0
    /\ inbox = <<>> /\ stored = <<>> /\ badgeText = <<>>
    /\ tabProviders = {}
    /\ popupView = [status |-> "", statusCount |-> <<>>, trackerCount |-> 0,
                    shownIds |-> {}]
    /\ loadFailed = FALSE /\ rescans = 0 /\ captured = FALSE
    /\ scanned = FALSE /\ lastUpdate = <<>>
    /\ pageEvents = 0
    /\ scanTimers = 0 /\ observers = 0 /\ callbacks = 0
    /\ GhostIdle
    /\ UiIdle
    /\ FnIdle

\* injectGlobalVariableDetector: one more detector script on its way, unless
\* the provider list is empty.  With an invalidated context the extension URL
\* of the detector no longer resolves and the script never runs.
Inject(provs, pending) ==
    IF Len(provs) > 0 /\ contextValid THEN pending + 1 ELSE pending

\* runDetection with the capture of step 1 made unconditional
ShouldCaptureAlways(orig) == TRUE

\* runDetection, step 1: originalNumbers.size === 0
ShouldCapture(orig) == Len(orig) = 0

\* clearTimeout(updateTimer): the timer whose id is held, if it is pending,
\* is cancelled
ClearTimeout(pending) == IF pending > 0 THEN pending - 1 ELSE 0

\* updateBadgeAndStorage without its clearTimeout
UpdateBadgeAndStorageKeepingTimer(pending) == pending + 1

\* updateBadgeAndStorage: the pending timers after the call
UpdateBadgeAndStorage(pending) == ClearTimeout(pending) + 1

\* runDetection over the collections orig, cur, trk (the handler's current
\* ones, or the emptied ones of a rescan) with provider list provs, in the
\* document state (hasBody, d); scan is the number of rescans handled and
\* wasCaptured the captured flag before the call
RunDetection(orig, cur, trk, provs, hasBody, d, scan, wasCaptured) ==
    /\ reprobeTimers < MaxTimers
    /\ probes < MaxProbes
    /\ originalNumbers' = IF ShouldCapture(orig) /\ hasBody
                          THEN CaptureOriginalNumbers(orig, d, scan)
                          ELSE orig
    /\ captured' = (wasCaptured \/ (ShouldCapture(orig) /\ hasBody))
    /\ detectedTrackers' = DetectTrackingScripts(trk, provs, scripts, scan)
    /\ probes' = Inject(provs, probes)
    /\ reprobeTimers' = reprobeTimers + 1
    /\ currentNumbers' = IF hasBody THEN ScanCurrentNumbers(d, scan) ELSE cur
    /\ scanned' = (scanned \/ hasBody)
    /\ updateTimer' = IF contextValid THEN UpdateBadgeAndStorage(updateTimer)
                      ELSE updateTimer
    /\ mutationObserver' =
           IF mutationObserver = "null" /\ hasBody
           THEN (IF contextValid THEN "observing" ELSE "created")
           ELSE mutationObserver
    /\ scanComplete' = TRUE

\* initialize() without its DOMContentLoaded listener
InitializeWithoutListener(provs, failed) ==
    /\ phase = "loading"
    /\ records = {}
    /\ phase' = "ready"
    /\ providers' = provs
    /\ loadFailed' = failed
    /\ RunDetection(originalNumbers, currentNumbers, detectedTrackers, provs,
                    body, dom, rescans, captured)
    /\ dclListener' = FALSE
    /\ UNCHANGED <<pageVars, loadTimers, sinkVars, rescans, lastUpdate,
                   pageEvents, simpleVars, ghostVars, uiVars, fnVars>>

\* initialize() resumes after loadProviders(): provs is the loaded table, or
\* the empty list when the fetch or the parse threw
Initialize(provs, failed) ==
    /\ phase = "loading"
    /\ records = {}
    /\ phase' = "ready"
    /\ providers' = provs
    /\ loadFailed' = failed
    /\ RunDetection(originalNumbers, currentNumbers, detectedTrackers, provs,
                    body, dom, rescans, captured)
    /\ dclListener' = (readyState = "loading")
    /\ UNCHANGED <<pageVars, loadTimers, sinkVars, rescans, lastUpdate,
                   pageEvents, simpleVars, ghostVars, uiVars, fnVars>>

ProvidersLoaded == Initialize(ProviderTable, FALSE)

ProvidersFailed == Initialize(<<>>, TRUE)

\* The parser reaches <body>
BodyParsed ==
    /\ ~body
    /\ body' = TRUE
    /\ dom' \in InitialDoms
    /\ UNCHANGED <<contextValid, readyState, scripts, globals, records,
                   scriptVars, sinkVars, historyVars, simpleVars, ghostVars, uiVars, fnVars>>

\* DOMContentLoaded fires; its listener, when registered, runs runDetection
DomContentLoaded ==
    /\ readyState = "loading"
    /\ body
    /\ records = {}
    /\ readyState' = "interactive"
    /\ IF dclListener
       THEN RunDetection(originalNumbers, currentNumbers, detectedTrackers,
                         providers, body, dom, rescans, captured)
       ELSE UNCHANGED <<originalNumbers, currentNumbers, detectedTrackers,
                        scanComplete, mutationObserver, updateTimer,
                        reprobeTimers, probes, captured, scanned>>
    /\ UNCHANGED <<contextValid, body, dom, scripts, globals, records, phase,
                   providers, dclListener, loadTimers, sinkVars, loadFailed,
                   rescans, lastUpdate, pageEvents, simpleVars, ghostVars, uiVars, fnVars>>

\* load fires; its listener, registered by initialize(), starts the 1000 ms
\* timer
WindowLoad ==
    /\ readyState = "interactive"
    /\ records = {}
    /\ readyState' = "complete"
    /\ loadTimers' = IF phase = "ready" THEN loadTimers + 1 ELSE loadTimers
    /\ UNCHANGED <<contextValid, body, dom, scripts, globals, records, phase,
                   providers, originalNumbers, currentNumbers,
                   detectedTrackers, scanComplete, mutationObserver,
                   updateTimer, reprobeTimers, probes, dclListener, sinkVars,
                   historyVars, simpleVars, ghostVars, uiVars, fnVars>>

\* Timers of one delay fire in the order they were started: the ones pending
\* since before the last rescan first
StaleAfterTimer(kind) ==
    /\ stale' = IF stale[kind] > 0 THEN NoneStale ELSE stale
    /\ staleRan' = (staleRan \/ stale[kind] > 0)

LoadTimerFires ==
    /\ loadTimers > 0
    /\ records = {}
    /\ loadTimers' = loadTimers - 1
    /\ RunDetection(originalNumbers, currentNumbers, detectedTrackers,
                    providers, body, dom, rescans, captured)
    /\ StaleAfterTimer("load")
    /\ UNCHANGED <<pageVars, phase, providers, dclListener, sinkVars,
                   loadFailed, rescans, lastUpdate, pageEvents,
                   simpleVars, burstScans, uiVars, fnVars>>

\* The 3000 ms timer of detectGlobalVariables
ReprobeTimerFires ==
    /\ reprobeTimers > 0
    /\ probes < MaxProbes
    /\ records = {}
    /\ reprobeTimers' = reprobeTimers - 1
    /\ probes' = Inject(providers, probes)
    /\ StaleAfterTimer("reprobe")
    /\ UNCHANGED <<pageVars, phase, providers, originalNumbers,
                   currentNumbers, detectedTrackers, scanComplete,
                   mutationObserver, updateTimer, dclListener, loadTimers,
                   sinkVars, historyVars, simpleVars, burstScans, uiVars, fnVars>>

\* An injected detector runs in the page and, when it finds a variable,
\* dispatches trackingVariablesFound to the content script's listener
ProbeRuns ==
    /\ probes > 0
    /\ records = {}
    /\ probes' = probes - 1
    /\ detectedTrackers' =
           MergeFound(detectedTrackers, FoundFrom(providers, globals, 1), 1,
                      rescans)
    /\ updateTimer' = IF contextValid /\ detectedTrackers' # detectedTrackers
                      THEN UpdateBadgeAndStorage(updateTimer)
                      ELSE updateTimer
    /\ UNCHANGED <<pageVars, phase, providers, originalNumbers,
                   currentNumbers, scanComplete, mutationObserver,
                   reprobeTimers, dclListener, loadTimers, sinkVars,
                   historyVars, simpleVars, ghostVars, uiVars, fnVars>>

\* The record the observer gets when the page replaces the node of a slot:
\* the text of a text node changed (characterData), the href of a link
\* changed (attributes), or a node was inserted, removed or exchanged under
\* the slot's parent element (childList)
RecordType(old, new) ==
    IF old.kind = "text" /\ new.kind = "text" THEN "characterData"
    ELSE IF old.kind = "tel" /\ new.kind = "tel" THEN "attributes"
    ELSE "childList"

\* The page changes one phone-bearing node, for at most budget changes
ChangeNodeWithin(s, node, budget) ==
    /\ body
    /\ pageEvents < budget
    /\ dom[s] # node
    /\ dom' = [dom EXCEPT ![s] = node]
    /\ pageEvents' = pageEvents + 1
    /\ records' = IF mutationObserver = "observing"
                  THEN records \cup {[type |-> RecordType(dom[s], node),
                                      slot |-> s]}
                  ELSE records
    /\ UNCHANGED <<contextValid, body, readyState, scripts, globals,
                   scriptVars, sinkVars, loadFailed, rescans, captured,
                   scanned, lastUpdate, simpleVars, ghostVars, uiVars, fnVars>>

ChangeNode(s, node) == ChangeNodeWithin(s, node, MaxPageEvents)

\* The page adds a script element to its head
AddScript(i) ==
    /\ pageEvents < MaxPageEvents
    /\ i \notin scripts
    /\ scripts' = scripts \cup {i}
    /\ pageEvents' = pageEvents + 1
    /\ UNCHANGED <<contextValid, body, readyState, dom, globals, records,
                   scriptVars, sinkVars, loadFailed, rescans, captured,
                   scanned, lastUpdate, simpleVars, ghostVars, uiVars, fnVars>>

\* The page removes a script element (a loader that deletes itself)
RemoveScript(i) ==
    /\ pageEvents < MaxPageEvents
    /\ i \in scripts
    /\ scripts' = scripts \ {i}
    /\ pageEvents' = pageEvents + 1
    /\ UNCHANGED <<contextValid, body, readyState, dom, globals, records,
                   scriptVars, sinkVars, loadFailed, rescans, captured,
                   scanned, lastUpdate, simpleVars, ghostVars, uiVars, fnVars>>

\* A tracker's script defines its global on window
DefineGlobal(v) ==
    /\ pageEvents < MaxPageEvents
    /\ v \notin globals
    /\ globals' = globals \cup {v}
    /\ pageEvents' = pageEvents + 1
    /\ UNCHANGED <<contextValid, body, readyState, dom, scripts, records,
                   scriptVars, sinkVars, loadFailed, rescans, captured,
                   scanned, lastUpdate, simpleVars, ghostVars, uiVars, fnVars>>

\* The extension is reloaded, updated or removed
InvalidateContext ==
    /\ pageEvents < MaxPageEvents
    /\ contextValid
    /\ contextValid' = FALSE
    /\ pageEvents' = pageEvents + 1
    /\ UNCHANGED <<body, readyState, dom, scripts, globals, records,
                   scriptVars, sinkVars, loadFailed, rescans, captured,
                   scanned, lastUpdate, simpleVars, ghostVars, uiVars, fnVars>>

\* The observer callback's test of one record against the document as it is
\* when the callback runs
IsPhoneChange(record) ==
    LET node == dom[record.slot]
    IN \/ /\ record.type \in {"characterData", "childList"}
          /\ node.kind = "text"
          /\ HasPhoneShape(node.text)
       \/ /\ record.type = "attributes"
          /\ node.kind = "tel"

\* The MutationObserver callback, delivered before any other task
ObserverCallback ==
    /\ records # {}
    /\ records' = {}
    /\ IF ~contextValid
       THEN /\ mutationObserver' = "null"
            /\ UNCHANGED <<currentNumbers, updateTimer, scanned, burstScans>>
       ELSE IF \E r \in records : IsPhoneChange(r)
       THEN /\ currentNumbers' = ScanCurrentNumbers(dom, rescans)
            /\ scanned' = TRUE
            /\ updateTimer' = UpdateBadgeAndStorage(updateTimer)
            /\ burstScans' = burstScans + 1
            /\ UNCHANGED mutationObserver
       ELSE UNCHANGED <<mutationObserver, currentNumbers, updateTimer,
                        scanned, burstScans>>
    /\ stale' = IF stale.observer THEN NoneStale ELSE stale
    /\ staleRan' = (staleRan \/ stale.observer)
    /\ UNCHANGED <<contextValid, body, readyState, dom, scripts, globals,
                   phase, providers, originalNumbers, detectedTrackers,
                   scanComplete, reprobeTimers, probes, dclListener,
                   loadTimers, sinkVars, loadFailed, rescans, captured,
                   lastUpdate, pageEvents, simpleVars, uiVars, fnVars>>

\* The 150 ms debounce timer of updateBadgeAndStorage fires
UpdateTimerFires ==
    /\ updateTimer > 0
    /\ records = {}
    /\ contextValid => Len(inbox) < MaxInbox
    /\ updateTimer' = updateTimer - 1
    /\ burstScans' = 0
    /\ IF contextValid
       THEN /\ inbox' = Append(inbox, Results)
            /\ stored' = <<Results>>
       ELSE UNCHANGED <<inbox, stored>>
    /\ UNCHANGED <<pageVars, phase, providers, originalNumbers,
                   currentNumbers, detectedTrackers, scanComplete,
                   mutationObserver, reprobeTimers, probes, dclListener,
                   loadTimers, badgeText, tabProviders, popupView,
                   historyVars, simpleVars, stale, staleRan, uiVars, fnVars>>

\* background: the updateDetection handler
HandleUpdateDetection ==
    /\ inbox # <<>>
    /\ inbox' = Tail(inbox)
    /\ tabProviders' = tabProviders
                       \cup {Head(inbox).detectedTrackers[i].provider :
                                 i \in 1..Len(Head(inbox).detectedTrackers)}
    /\ badgeText' = BadgeFor(Head(inbox))
    /\ lastUpdate' = <<ProviderIds(Head(inbox).detectedTrackers)>>
    /\ UNCHANGED <<pageVars, scriptVars, stored, popupView, loadFailed,
                   rescans, captured, scanned, pageEvents,
                   simpleVars, ghostVars, uiVars, fnVars>>

\* The popup asks for the detection state and displays the answer
GetDetection ==
    /\ contextValid
    /\ records = {}
    /\ popupView' = DisplayResults(popupView, DetectionResponse)
    /\ UNCHANGED <<pageVars, scriptVars, inbox, stored, badgeText,
                   tabProviders, historyVars, simpleVars, ghostVars, uiVars, fnVars>>

\* What a rescan finds pending: the timers of the load listener and of
\* detectGlobalVariables, and the observer if it is subscribed
StaleAtRescan ==
    stale' = IF staleRan THEN NoneStale
             ELSE [load     |-> loadTimers,
                   reprobe  |-> reprobeTimers,
                   observer |-> mutationObserver = "observing"]

\* The rescan command with detectedTrackers left as it is
RescanKeepingTrackers ==
    /\ contextValid
    /\ records = {}
    /\ rescans < MaxRescans
    /\ rescans' = rescans + 1
    /\ RunDetection(<<>>, <<>>, detectedTrackers, providers, body, dom,
                    rescans + 1, FALSE)
    /\ StaleAtRescan
    /\ UNCHANGED <<pageVars, phase, providers, dclListener, loadTimers,
                   sinkVars, loadFailed, lastUpdate, pageEvents,
                   simpleVars, burstScans, staleRan, uiVars, fnVars>>

\* The rescan command with originalNumbers left as it is
RescanKeepingOriginals ==
    /\ contextValid
    /\ records = {}
    /\ rescans < MaxRescans
    /\ rescans' = rescans + 1
    /\ RunDetection(originalNumbers, <<>>, <<>>, providers, body, dom,
                    rescans + 1, captured)
    /\ StaleAtRescan
    /\ UNCHANGED <<pageVars, phase, providers, dclListener, loadTimers,
                   sinkVars, loadFailed, lastUpdate, pageEvents,
                   simpleVars, burstScans, staleRan, uiVars, fnVars>>

\* The rescan command: the three collections are emptied, then runDetection
Rescan ==
    /\ contextValid
    /\ records = {}
    /\ rescans < MaxRescans
    /\ rescans' = rescans + 1
    /\ RunDetection(<<>>, <<>>, <<>>, providers, body, dom, rescans + 1, FALSE)
    /\ StaleAtRescan
    /\ UNCHANGED <<pageVars, phase, providers, dclListener, loadTimers,
                   sinkVars, loadFailed, lastUpdate, pageEvents,
                   simpleVars, burstScans, staleRan, uiVars, fnVars>>

Next ==
    \/ ProvidersLoaded
    \/ ProvidersFailed
    \/ BodyParsed
    \/ DomContentLoaded
    \/ WindowLoad
    \/ \E s \in DOMAIN dom : \E node \in PageNodes \cup {NoNode} :
           ChangeNode(s, node)
    \/ \E i \in DOMAIN ScriptPool : AddScript(i)
    \/ \E i \in DOMAIN ScriptPool : RemoveScript(i)
    \/ \E v \in PageGlobals : DefineGlobal(v)
    \/ InvalidateContext
    \/ LoadTimerFires
    \/ ReprobeTimerFires
    \/ ProbeRuns
    \/ ObserverCallback
    \/ UpdateTimerFires
    \/ HandleUpdateDetection
    \/ GetDetection
    \/ Rescan

Spec == Init /\ [][Next]_vars

-----------------------------------------------------------------------------
(* The simple content script (unnamed/part_001): it scans only after the   *)
(* load event, matches external scripts by hostname, resets                *)
(* detectedTrackers on every pass and has no observer and no debounce.     *)

\* The hostname the regex fallback extracts: what follows "//" up to the
\* next "/", "?" or "#"; from is the position of "//", 0 when absent
FallbackHostname(srcLower, from) ==
    IF from = 0 THEN <<>>
    ELSE SubSeq(srcLower, from + 2,
                FirstOf(srcLower, from + 2, {"/", "?", "#"}) - 1)

\* new URL(srcUrl).hostname.toLowerCase(), or the fallback when URL throws
HostnameOr(parsed, srcLower) ==
    IF parsed.ok THEN parsed.hostname
    ELSE FallbackHostname(srcLower, IndexOf(srcLower, <<"/", "/">>))

Hostname(url) == HostnameOr(ParseUrl(url), ToLowerCase(url))

\* hostname === d || hostname.endsWith('.' + d), after if (!hostname) return
HostMatches(hostname, d) ==
    hostname # <<>> /\ (hostname = d \/ EndsWith(hostname, <<".">> \o d))

\* The hostname test of the simple content script's detectTrackingScripts
HostnameMatchesDomain(url, domain) ==
    HostMatches(Hostname(url), ToLowerCase(domain))

\* provider.domains.some(...)
SimpleDomainMatch(url, provider) ==
    \E i \in 1..Len(provider.domains) :
        HostnameMatchesDomain(url, provider.domains[i])

RECURSIVE SimpleExternalFrom(_, _, _, _)
\* detectTrackingScripts of the simple script, the scripts.forEach /
\* providers.forEach nest from its k-th pair on; its entries carry no
\* matchType
SimpleExternalFrom(srcs, provs, k, scan) ==
    IF k > Len(srcs) * Len(provs) THEN <<>>
    ELSE ExternalEntry(srcs[((k - 1) \div Len(provs)) + 1],
                       provs[((k - 1) % Len(provs)) + 1],
                       [matches |->
                            SimpleDomainMatch(
                                ScriptPool[srcs[((k - 1) \div Len(provs)) + 1]].src,
                                provs[((k - 1) % Len(provs)) + 1]),
                        matchType |-> "undefined",
                        matchedPattern |-> <<>>],
                       scan)
         \o SimpleExternalFrom(srcs, provs, k + 1, scan)

\* detectTrackingScripts of the simple script: detectedTrackers = [] and the
\* pushes of the pass.  Its signature test (content.includes(sig) ||
\* contentLower.includes(sig.toLowerCase())) succeeds exactly when the
\* second disjunct does.
SimpleDetectTrackingScripts(provs, present, scan) ==
    DetectInline(<<>>,
                 SimpleExternalFrom(ScriptsOf(present, TRUE), provs, 1, scan),
                 provs, present, scan)

\* The record the simple updateBadgeAndStorage emits once scanCurrentNumbers
\* has left cur in currentNumbers
SimpleResults(cur) ==
    [detectedTrackers |-> detectedTrackers,
     originalNumbers  |-> originalNumbers,
     currentNumbers   |-> cur,
     swaps            |-> DetectNumberSwaps(originalNumbers, cur),
     scanComplete     |-> TRUE]

\* runDetection of the simple script over the map orig and the list trk:
\* capture (always, merging into orig), detect, then the 3000 ms timer.
\* Without a body createTreeWalker(null) throws and the call ends there.
SimpleRunDetection(orig, trk, provs, scan) ==
    /\ scanTimers < MaxTimers
    /\ IF body
       THEN /\ originalNumbers' = CaptureOriginalNumbers(orig, dom, scan)
            /\ captured' = TRUE
            /\ detectedTrackers' =
                   SimpleDetectTrackingScripts(provs, scripts, scan)
            /\ scanTimers' = scanTimers + 1
       ELSE /\ originalNumbers' = orig
            /\ detectedTrackers' = trk
            /\ UNCHANGED <<captured, scanTimers>>

\* initialize() of the simple script resumes after loadProviders(): when the
\* load failed it returns; otherwise it starts the 1000 ms timer if the page
\* is complete and else registers the load listener (phase = "ready")
SimpleInitialize(loaded) ==
    /\ phase = "loading"
    /\ phase' = IF loaded THEN "ready" ELSE "failed"
    /\ providers' = IF loaded THEN ProviderTable ELSE <<>>
    /\ loadFailed' = ~loaded
    /\ loadTimers' = IF loaded /\ readyState = "complete"
                     THEN loadTimers + 1 ELSE loadTimers
    /\ UNCHANGED <<pageVars, originalNumbers, currentNumbers,
                   detectedTrackers, scanComplete, mutationObserver,
                   updateTimer, reprobeTimers, probes, dclListener, sinkVars,
                   rescans, captured, scanned, lastUpdate, pageEvents,
                   simpleVars, ghostVars, uiVars, fnVars>>

SimpleProvidersLoaded == SimpleInitialize(TRUE)

SimpleProvidersFailed == SimpleInitialize(FALSE)

\* setTimeout(runDetection, 1000 or 2000) fires
SimpleLoadTimerFires ==
    /\ loadTimers > 0
    /\ loadTimers' = loadTimers - 1
    /\ SimpleRunDetection(originalNumbers, detectedTrackers, providers,
                          rescans)
    /\ UNCHANGED <<pageVars, phase, providers, currentNumbers, scanComplete,
                   mutationObserver, updateTimer, reprobeTimers, probes,
                   dclListener, sinkVars, loadFailed, rescans, scanned,
                   lastUpdate, pageEvents, observers, callbacks,
                   ghostVars, uiVars, fnVars>>

\* The 3000 ms timer of runDetection fires: scanCurrentNumbers,
\* updateBadgeAndStorage (its sends throw, and are caught, once the context
\* is gone), scanComplete = true
SimpleScanTimerFires ==
    /\ scanTimers > 0
    /\ contextValid => Len(inbox) < MaxInbox
    /\ scanTimers' = scanTimers - 1
    /\ currentNumbers' = ScanCurrentNumbers(dom, rescans)
    /\ scanned' = TRUE
    /\ IF contextValid
       THEN /\ inbox' = Append(inbox,
                               SimpleResults(ScanCurrentNumbers(dom, rescans)))
            /\ stored' = <<SimpleResults(ScanCurrentNumbers(dom, rescans))>>
       ELSE UNCHANGED <<inbox, stored>>
    /\ scanComplete' = TRUE
    /\ UNCHANGED <<pageVars, phase, providers, originalNumbers,
                   detectedTrackers, mutationObserver, updateTimer,
                   reprobeTimers, probes, dclListener, loadTimers, badgeText,
                   tabProviders, popupView, loadFailed, rescans, captured,
                   lastUpdate, pageEvents, observers, callbacks,
                   ghostVars, uiVars, fnVars>>

\* The rescan command of the simple script
SimpleRescan ==
    /\ contextValid
    /\ rescans < MaxRescans
    /\ rescans' = rescans + 1
    /\ currentNumbers' = <<>>
    /\ SimpleRunDetection(<<>>, <<>>, providers, rescans + 1)
    /\ UNCHANGED <<pageVars, phase, providers, scanComplete,
                   mutationObserver, updateTimer, reprobeTimers, probes,
                   dclListener, loadTimers, sinkVars, loadFailed, scanned,
                   lastUpdate, pageEvents, observers, callbacks,
                   ghostVars, uiVars, fnVars>>

SimpleNext ==
    \/ SimpleProvidersLoaded
    \/ SimpleProvidersFailed
    \/ BodyParsed
    \/ DomContentLoaded
    \/ WindowLoad
    \/ \E s \in DOMAIN dom : \E node \in PageNodes \cup {NoNode} :
           ChangeNode(s, node)
    \/ \E i \in DOMAIN ScriptPool : AddScript(i)
    \/ \E i \in DOMAIN ScriptPool : RemoveScript(i)
    \/ InvalidateContext
    \/ SimpleLoadTimerFires
    \/ SimpleScanTimerFires
    \/ HandleUpdateDetection
    \/ GetDetection
    \/ SimpleRescan

SpecSimple == Init /\ [][SimpleNext]_vars

-----------------------------------------------------------------------------
(* content.js: the content script that scans 2000 ms after the capture and  *)
(* subscribes an observer in every scan.                                    *)

\* provider.domains.some(domain => src.includes(domain.toLowerCase())) ||
\* provider.scriptPatterns.some(pattern => src.includes(pattern.toLowerCase()))
ContentUrlMatch(src, provider) ==
    \/ \E i \in 1..Len(provider.domains) :
           Includes(src, ToLowerCase(provider.domains[i]))
    \/ \E i \in 1..Len(provider.scriptPatterns) :
           Includes(src, ToLowerCase(provider.scriptPatterns[i]))

RECURSIVE ContentExternalFrom(_, _, _, _)
\* detectTrackingScripts, the scripts.forEach / providers.forEach nest from
\* its k-th pair on
ContentExternalFrom(srcs, provs, k, scan) ==
    IF k > Len(srcs) * Len(provs) THEN <<>>
    ELSE ExternalEntry(srcs[((k - 1) \div Len(provs)) + 1],
                       provs[((k - 1) % Len(provs)) + 1],
                       [matches |->
                            ContentUrlMatch(
                                ToLowerCase(
                                    ScriptPool[srcs[((k - 1) \div Len(provs)) + 1]].src),
                                provs[((k - 1) % Len(provs)) + 1]),
                        matchType |-> "undefined",
                        matchedPattern |-> <<>>],
                       scan)
         \o ContentExternalFrom(srcs, provs, k + 1, scan)

\* detectTrackingScripts pushes onto the list it finds
ContentDetectTrackingScripts(trackers, provs, present, scan) ==
    DetectInline(trackers,
                 ContentExternalFrom(ScriptsOf(present, TRUE), provs, 1, scan),
                 provs, present, scan)

\* The results object of updateBadgeAndStorage with cur as currentNumbers
ContentResults(cur) ==
    [detectedTrackers |-> detectedTrackers,
     originalNumbers  |-> originalNumbers,
     currentNumbers   |-> cur,
     swaps            |-> DetectNumberSwaps(originalNumbers, cur)]

\* updateBadgeAndStorage: nothing is sent once the context is gone
ContentUpdateBadgeAndStorage(cur) ==
    IF contextValid
    THEN /\ inbox' = Append(inbox, ContentResults(cur))
         /\ stored' = <<ContentResults(cur)>>
    ELSE UNCHANGED <<inbox, stored>>

\* runDetection over the map orig and the list trk: capture, detect, then
\* the 2000 ms timer.  Without a body findPhoneNumbersInElement(null) throws
\* in captureOriginalNumbers and the call ends there.
ContentRunDetection(orig, trk, provs, scan) ==
    /\ scanTimers < MaxTimers
    /\ IF body
       THEN /\ originalNumbers' = CaptureOriginalNumbers(orig, dom, scan)
            /\ captured' = TRUE
            /\ detectedTrackers' =
                   ContentDetectTrackingScripts(trk, provs, scripts, scan)
            /\ scanTimers' = scanTimers + 1
       ELSE /\ originalNumbers' = orig
            /\ detectedTrackers' = trk
            /\ UNCHANGED <<captured, scanTimers>>

\* initialize() resumes after loadProviders(), which leaves providers empty
\* when the fetch or the parse threw: runDetection now, or on
\* DOMContentLoaded while the document is loading
ContentInitialize(provs, failed) ==
    /\ phase = "loading"
    /\ phase' = "ready"
    /\ providers' = provs
    /\ loadFailed' = failed
    /\ IF readyState = "loading"
       THEN /\ dclListener' = TRUE
            /\ UNCHANGED <<originalNumbers, detectedTrackers, captured,
                           scanTimers>>
       ELSE /\ ContentRunDetection(originalNumbers, detectedTrackers, provs,
                                   rescans)
            /\ UNCHANGED dclListener
    /\ UNCHANGED <<pageVars, currentNumbers, scanComplete, mutationObserver,
                   updateTimer, reprobeTimers, probes, loadTimers, sinkVars,
                   rescans, scanned, lastUpdate, pageEvents, observers,
                   callbacks, ghostVars, uiVars, fnVars>>

ContentProvidersLoaded == ContentInitialize(ProviderTable, FALSE)

ContentProvidersFailed == ContentInitialize(<<>>, TRUE)

\* DOMContentLoaded: the listener, if registered, is runDetection
ContentDomContentLoaded ==
    /\ readyState = "loading"
    /\ body
    /\ readyState' = "interactive"
    /\ IF dclListener
       THEN ContentRunDetection(originalNumbers, detectedTrackers, providers,
                                rescans)
       ELSE UNCHANGED <<originalNumbers, detectedTrackers, captured,
                        scanTimers>>
    /\ UNCHANGED <<contextValid, body, dom, scripts, globals, records, phase,
                   providers, currentNumbers, scanComplete, mutationObserver,
                   updateTimer, reprobeTimers, probes, dclListener,
                   loadTimers, sinkVars, loadFailed, rescans, scanned,
                   lastUpdate, pageEvents, observers, callbacks, ghostVars,
                   uiVars, fnVars>>

\* The 2000 ms timer of runDetection fires: scanCurrentNumbers,
\* updateBadgeAndStorage, observeDOMChanges (a new MutationObserver is
\* subscribed to document.body), scanComplete = true
ContentScanTimerFires ==
    /\ scanTimers > 0
    /\ records = {}
    /\ contextValid => Len(inbox) < MaxInbox
    /\ scanTimers' = scanTimers - 1
    /\ currentNumbers' = ScanCurrentNumbers(dom, rescans)
    /\ scanned' = TRUE
    /\ ContentUpdateBadgeAndStorage(ScanCurrentNumbers(dom, rescans))
    /\ observers' = observers + 1
    /\ scanComplete' = TRUE
    /\ UNCHANGED <<pageVars, phase, providers, originalNumbers,
                   detectedTrackers, mutationObserver, updateTimer,
                   reprobeTimers, probes, dclListener, loadTimers, badgeText,
                   tabProviders, popupView, loadFailed, rescans, captured,
                   lastUpdate, pageEvents, callbacks, ghostVars, uiVars, fnVars>>

\* The page changes one phone-bearing node; every subscribed observer is
\* handed the record
ContentChangeNode(s, node) ==
    /\ body
    /\ pageEvents < MaxPageEvents
    /\ records = {}
    /\ dom[s] # node
    /\ dom' = [dom EXCEPT ![s] = node]
    /\ pageEvents' = pageEvents + 1
    /\ records' = IF observers > 0
                  THEN {[type |-> RecordType(dom[s], node), slot |-> s]}
                  ELSE {}
    /\ callbacks' = 0
    /\ UNCHANGED <<contextValid, body, readyState, scripts, globals,
                   scriptVars, sinkVars, loadFailed, rescans, captured,
                   scanned, lastUpdate, scanTimers, observers, ghostVars,
                   uiVars, fnVars>>

\* The callback of one of the subscribed observers, each being handed the
\* batch in turn before any other task runs
ContentObserverCallback ==
    /\ records # {}
    /\ callbacks < observers
    /\ contextValid => Len(inbox) < MaxInbox
    /\ callbacks' = callbacks + 1
    /\ records' = IF callbacks + 1 = observers THEN {} ELSE records
    /\ IF \E r \in records : IsPhoneChange(r)
       THEN /\ currentNumbers' = ScanCurrentNumbers(dom, rescans)
            /\ scanned' = TRUE
            /\ ContentUpdateBadgeAndStorage(ScanCurrentNumbers(dom, rescans))
       ELSE UNCHANGED <<currentNumbers, scanned, inbox, stored>>
    /\ UNCHANGED <<contextValid, body, readyState, dom, scripts, globals,
                   phase, providers, originalNumbers, detectedTrackers,
                   scanComplete, mutationObserver, updateTimer,
                   reprobeTimers, probes, dclListener, loadTimers, badgeText,
                   tabProviders, popupView, loadFailed, rescans, captured,
                   lastUpdate, pageEvents, scanTimers, observers, ghostVars,
                   uiVars, fnVars>>

\* The rescan command: the three collections are emptied, then runDetection
ContentRescan ==
    /\ contextValid
    /\ records = {}
    /\ rescans < MaxRescans
    /\ rescans' = rescans + 1
    /\ currentNumbers' = <<>>
    /\ ContentRunDetection(<<>>, <<>>, providers, rescans + 1)
    /\ UNCHANGED <<pageVars, phase, providers, scanComplete,
                   mutationObserver, updateTimer, reprobeTimers, probes,
                   dclListener, loadTimers, sinkVars, loadFailed, scanned,
                   lastUpdate, pageEvents, observers, callbacks, ghostVars,
                   uiVars, fnVars>>

ContentNext ==
    \/ ContentProvidersLoaded
    \/ ContentProvidersFailed
    \/ BodyParsed
    \/ ContentDomContentLoaded
    \/ WindowLoad
    \/ \E s \in DOMAIN dom : \E node \in PageNodes \cup {NoNode} :
           ContentChangeNode(s, node)
    \/ \E i \in DOMAIN ScriptPool : AddScript(i)
    \/ \E i \in DOMAIN ScriptPool : RemoveScript(i)
    \/ InvalidateContext
    \/ ContentScanTimerFires
    \/ ContentObserverCallback
    \/ HandleUpdateDetection
    \/ GetDetection
    \/ ContentRescan

SpecContent == Init /\ [][ContentNext]_vars

-----------------------------------------------------------------------------
(* Pure-function harness: the inputs are drawn in Init, one action applies *)
(* the function.                                                           *)

MaxMapLen == 2

TestPhones == {R_paren, R_dots, R_dash, R_plus, R_plain}

TestLocations == {"Header", "Content"}

\* A number-map entry as captureOriginalNumbers / scanCurrentNumbers build it
\* from one result of findPhoneNumbersInElement
NumberEntry(phone, location) ==
    [key        |-> NormalizePhone(phone),
     phone      |-> phone,
     formatted  |-> FormatPhone(phone),
     normalized |-> NormalizePhone(phone),
     locations  |-> <<location>>]

\* The number maps with at most MaxMapLen entries: one entry per key
TestMaps ==
    LET entries == {NumberEntry(r, "Content") : r \in TestPhones}
                   \cup {NumberEntry(R_paren, "Header")}
        seqs == UNION {[1..n -> entries] : n \in 0..MaxMapLen}
    IN {m \in seqs : \A i, j \in 1..Len(m) :
                        m[i].key = m[j].key => i = j}

InitSwaps ==
    /\ fnIn \in [original : TestMaps, current : TestMaps]
    /\ fnOut = <<>>
    /\ fnDone = FALSE
    /\ MainIdle

CallDetectNumberSwaps ==
    /\ ~fnDone
    /\ fnOut' = DetectNumberSwaps(fnIn.original, fnIn.current)
    /\ fnDone' = TRUE
    /\ UNCHANGED <<fnIn, mainVars, simpleVars, ghostVars, uiVars>>

SpecSwaps == InitSwaps /\ [][CallDetectNumberSwaps]_vars

\* C1: detectNumberSwaps returns exactly one record for every pair of a key of
\* original absent from current and a key of current absent from original
\* (|disappeared| x |appeared| records), and no other record.
SwapsAreCrossProduct ==
    fnDone =>
        LET dis   == KeysOf(fnIn.original) \ KeysOf(fnIn.current)
            app   == KeysOf(fnIn.current) \ KeysOf(fnIn.original)
            pairs == {<<fnOut[i].originalNormalized, fnOut[i].trackingNormalized>> :
                         i \in 1..Len(fnOut)}
        IN /\ Len(fnOut) = Cardinality(dis) * Cardinality(app)
           /\ pairs = dis \X app
           /\ \A i \in 1..Len(fnOut) :
                 /\ fnOut[i].originalNormalized \notin KeysOf(fnIn.current)
                 /\ fnOut[i].trackingNormalized \notin KeysOf(fnIn.original)

\* C1 witness: two originals disappeared, two numbers appeared, four records
SwapsTwoByTwo ==
    /\ fnDone
    /\ Cardinality(KeysOf(fnIn.original) \ KeysOf(fnIn.current)) = 2
    /\ Cardinality(KeysOf(fnIn.current) \ KeysOf(fnIn.original)) = 2
    /\ Len(fnOut) = 4

\* The providers tried: the full descriptor, one per single kind of pattern,
\* one with no pattern at all, and an absent provider
OnlyFields(provider, kinds) ==
    [provider EXCEPT
        !.domains = IF "domain" \in kinds THEN @ ELSE <<>>,
        !.scriptPatterns = IF "scriptPattern" \in kinds THEN @ ELSE <<>>,
        !.urlPathPatterns = IF "urlPath" \in kinds THEN @ ELSE <<>>,
        !.queryParamPatterns = IF "queryParam" \in kinds THEN @ ELSE <<>>]

MatchKinds == {"domain", "scriptPattern", "urlPath", "queryParam"}

TestProviders ==
    {CallRail, CallTrackingMetrics, NoProvider, OnlyFields(CallRail, {})}
    \cup {OnlyFields(CallRail, {k}) : k \in MatchKinds}
    \cup {OnlyFields(CallRail, MatchKinds \ {k}) : k \in MatchKinds}

TestUrls ==
    {<<>>, U_cdn, U_exact, U_upper, U_inPath, U_inQuery, U_label, U_script,
     U_path, U_tracking, U_pathInQuery, U_query, U_queryValue,
     U_scriptPathQuery, U_pathQuery, U_all, U_none, U_noScheme, U_tctm}

InitUrl ==
    /\ fnIn \in [url : TestUrls, provider : TestProviders]
    /\ fnOut = <<>>
    /\ fnDone = FALSE
    /\ MainIdle

CallMatchesTrackingUrl ==
    /\ ~fnDone
    /\ fnOut' = MatchesTrackingUrl(fnIn.url, fnIn.provider)
    /\ fnDone' = TRUE
    /\ UNCHANGED <<fnIn, mainVars, simpleVars, ghostVars, uiVars>>

SpecUrl == InitUrl /\ [][CallMatchesTrackingUrl]_vars

\* Whether the check of one kind succeeds for the call's arguments
CheckSucceeds(kind) ==
    /\ fnIn.url # <<>>
    /\ fnIn.provider # NoProvider
    /\ CASE kind = "domain" -> DomainHits(fnIn.url, fnIn.provider) # {}
         [] kind = "scriptPattern" -> ScriptPatternHits(fnIn.url, fnIn.provider) # {}
         [] kind = "urlPath" -> UrlPathHits(fnIn.url, fnIn.provider) # {}
         [] kind = "queryParam" -> QueryParamHits(fnIn.url, fnIn.provider) # {}

CheckOrder == <<"domain", "scriptPattern", "urlPath", "queryParam">>

\* The match type of the first check in CheckOrder that succeeds
FirstSuccessIs(kind) ==
    \E i \in 1..4 :
        /\ CheckOrder[i] = kind
        /\ CheckSucceeds(kind)
        /\ \A j \in 1..(i - 1) : ~CheckSucceeds(CheckOrder[j])

\* C5 as amended: the reported match type is that of the first check that
\* succeeds in the order domain, scriptPattern, urlPath, queryParam; matches is
\* false exactly when none succeeds, and then matchType is null when url and
\* provider are both given and is left out (undefined) when the url is empty
\* or the provider absent.
FirstMatchWins ==
    fnDone =>
        /\ \A kind \in MatchKinds :
              FirstSuccessIs(kind) <=> (fnOut.matches /\ fnOut.matchType = kind)
        /\ ~fnOut.matches <=> (\A kind \in MatchKinds : ~CheckSucceeds(kind))
        /\ ~fnOut.matches =>
              fnOut.matchType =
                  IF fnIn.url = <<>> \/ fnIn.provider = NoProvider
                  THEN "undefined" ELSE "null"

\* C5 witness: a URL that passes the scriptPattern, urlPath and queryParam
\* checks, but not the domain check, is reported as a scriptPattern match
FirstMatchWinsCase ==
    /\ fnDone
    /\ ~CheckSucceeds("domain")
    /\ CheckSucceeds("scriptPattern")
    /\ CheckSucceeds("urlPath")
    /\ CheckSucceeds("queryParam")
    /\ fnOut.matchType = "scriptPattern"

\* C5 as stated: matches = false with matchType null exactly when none of the
\* four checks succeeds
NoMatchIsNull ==
    fnDone =>
        /\ \A kind \in MatchKinds :
              FirstSuccessIs(kind) <=> (fnOut.matches /\ fnOut.matchType = kind)
        /\ (~fnOut.matches /\ fnOut.matchType = "null")
              <=> (\A kind \in MatchKinds : ~CheckSucceeds(kind))

\* C6: a URL is a domain match for a provider exactly when its hostname equals
\* one of the provider's domains or ends with "." followed by that domain
DomainMatchIsHostnameMatch ==
    (fnDone /\ fnIn.url # <<>> /\ fnIn.provider # NoProvider) =>
        ((fnOut.matches /\ fnOut.matchType = "domain")
            <=> \E i \in 1..Len(fnIn.provider.domains) :
                    HostnameMatchesDomain(fnIn.url, fnIn.provider.domains[i]))

-----------------------------------------------------------------------------
(* utils.js phone helpers: formatPhone, isValidPhone, phonesEqual.         *)

MaxPhoneDigits == 11

\* "555-1234"
R_shortDash == <<"5", "5", "5", "-", "1", "2", "3", "4">>
\* "2-555-123-4567"
R_elevenDash ==
    <<"2", "-", "5", "5", "5", "-", "1", "2", "3", "-", "4", "5", "6", "7">>
\* "155512345678"
R_twelve == <<"1", "5", "5", "5", "1", "2", "3", "4", "5", "6", "7", "8">>
\* "call us"
R_words == <<"c", "a", "l", "l", " ", "u", "s">>

\* The digit strings of up to MaxPhoneDigits digits over the digits 1 and 5
DigitStrings == UNION {[1..n -> {"1", "5"}] : n \in 0..MaxPhoneDigits}

\* d with a dash behind its third digit
Dashed(d) == SubSeq(d, 1, 3) \o <<"-">> \o SubSeq(d, 4, Len(d))

\* The inputs of formatPhone and isValidPhone: digit strings, the same with
\* punctuation, and written-out samples.  <<>> is the empty or absent input.
TestRaw ==
    DigitStrings
    \cup {Dashed(d) : d \in {x \in DigitStrings : Len(x) > 3}}
    \cup {R_paren, R_dots, R_dash, R_plus, R_plain, R_short, R_eleven,
          R_shortDash, R_elevenDash, R_twelve, R_words}

InitFormat ==
    /\ fnIn \in [phone : TestRaw]
    /\ fnOut = <<>>
    /\ fnDone = FALSE
    /\ MainIdle

\* formatPhone(phone), and normalizePhone of what it returned
CallFormatPhone ==
    /\ ~fnDone
    /\ fnOut' = [fn         |-> "formatPhone",
                 value      |-> FormatPhone(fnIn.phone),
                 normalized |-> NormalizePhone(FormatPhone(fnIn.phone))]
    /\ fnDone' = TRUE
    /\ UNCHANGED <<fnIn, mainVars, simpleVars, ghostVars, uiVars>>

CallIsValidPhone ==
    /\ ~fnDone
    /\ fnOut' = [fn |-> "isValidPhone", value |-> IsValidPhone(fnIn.phone)]
    /\ fnDone' = TRUE
    /\ UNCHANGED <<fnIn, mainVars, simpleVars, ghostVars, uiVars>>

FormatNext == CallFormatPhone \/ CallIsValidPhone

SpecFormat == InitFormat /\ [][FormatNext]_vars

IsDigitString(s) == \A i \in 1..Len(s) : s[i] \in Digits

\* ^\(\d{3}\) \d{3}-\d{4}$ and ^\+1 \(\d{3}\) \d{3}-\d{4}$, "d" standing for \d
ShapeTen ==
    <<"(", "d", "d", "d", ")", " ", "d", "d", "d", "-", "d", "d", "d", "d">>

ShapeEleven == <<"+", "1", " ">> \o ShapeTen

HasShape(s, shape) ==
    /\ Len(s) = Len(shape)
    /\ \A i \in 1..Len(shape) :
          IF shape[i] = "d" THEN s[i] \in Digits ELSE s[i] = shape[i]

\* The number of digit characters of raw, and the first of them
DigitCount(raw) == Cardinality({i \in 1..Len(raw) : raw[i] \in Digits})

LeadingDigit(raw) == raw[FirstOf(raw, 1, Digits)]

\* The digits of raw number 10, or 11 with the first digit 1
TenOrElevenWithOne(raw) ==
    \/ DigitCount(raw) = 10
    \/ DigitCount(raw) = 11 /\ LeadingDigit(raw) = "1"

\* C11: for a digit string d of length 10 formatPhone(d) has the shape
\* (AAA) PPP-LLLL, for one of length 11 starting with 1 the shape
\* +1 (AAA) PPP-LLLL, and normalizePhone of the result is d.
FormatShapeAndRoundTrip ==
    (fnDone /\ fnOut.fn = "formatPhone" /\ IsDigitString(fnIn.phone)) =>
        /\ Len(fnIn.phone) = 10 =>
              /\ HasShape(fnOut.value, ShapeTen)
              /\ fnOut.normalized = fnIn.phone
        /\ (Len(fnIn.phone) = 11 /\ fnIn.phone[1] = "1") =>
              /\ HasShape(fnOut.value, ShapeEleven)
              /\ fnOut.normalized = fnIn.phone

\* C11 witness: an 11-digit string with leading 1 was formatted
FormattedElevenDigits ==
    /\ fnDone
    /\ fnOut.fn = "formatPhone"
    /\ IsDigitString(fnIn.phone)
    /\ Len(fnIn.phone) = 11
    /\ fnIn.phone[1] = "1"
    /\ HasShape(fnOut.value, ShapeEleven)

\* C12: for an input whose digits number neither 10 nor 11 with a leading 1,
\* formatPhone returns the input string itself.
FormatKeepsUnrecognized ==
    (fnDone /\ fnOut.fn = "formatPhone" /\ ~TenOrElevenWithOne(fnIn.phone)) =>
        fnOut.value = fnIn.phone

\* C12 witness: a punctuated input with 11 digits and a leading digit other
\* than 1 came back as it was, not as its digits
PunctuatedElevenKept ==
    /\ fnDone
    /\ fnOut.fn = "formatPhone"
    /\ DigitCount(fnIn.phone) = 11
    /\ LeadingDigit(fnIn.phone) # "1"
    /\ ~IsDigitString(fnIn.phone)
    /\ fnOut.value = fnIn.phone
    /\ fnOut.value # fnOut.normalized

\* C13: isValidPhone(raw) is true exactly when the digits of raw number 10,
\* or number 11 with the first digit 1.
ValidIffTenOrElevenWithOne ==
    (fnDone /\ fnOut.fn = "isValidPhone") =>
        (fnOut.value <=> TenOrElevenWithOne(fnIn.phone))

\* C13 witness: isValidPhone answered false for 11 digits that start with
\* another digit than 1
ElevenWithoutOneInvalid ==
    /\ fnDone
    /\ fnOut.fn = "isValidPhone"
    /\ DigitCount(fnIn.phone) = 11
    /\ LeadingDigit(fnIn.phone) # "1"
    /\ fnOut.value = FALSE

\* The inputs of phonesEqual
EqualPhones ==
    {<<>>, R_paren, R_dots, R_dash, R_plain, R_short, R_shortDash, R_words}

InitEqual ==
    /\ fnIn \in [a : EqualPhones, b : EqualPhones, c : EqualPhones]
    /\ fnOut = <<>>
    /\ fnDone = FALSE
    /\ MainIdle

\* phonesEqual over the pairs of the three inputs
CallPhonesEqual ==
    /\ ~fnDone
    /\ fnOut' = [aa |-> PhonesEqual(fnIn.a, fnIn.a),
                 ab |-> PhonesEqual(fnIn.a, fnIn.b),
                 ba |-> PhonesEqual(fnIn.b, fnIn.a),
                 bc |-> PhonesEqual(fnIn.b, fnIn.c),
                 ac |-> PhonesEqual(fnIn.a, fnIn.c)]
    /\ fnDone' = TRUE
    /\ UNCHANGED <<fnIn, mainVars, simpleVars, ghostVars, uiVars>>

SpecEqual == InitEqual /\ [][CallPhonesEqual]_vars

\* raw without its non-digit characters
DigitsOnly(raw) ==
    LET at == {i \in 1..Len(raw) : raw[i] \in Digits}
        nth(k) == CHOOSE i \in at : Cardinality({j \in at : j <= i}) = k
    IN [k \in 1..Cardinality(at) |-> raw[nth(k)]]

\* C14: phonesEqual(a, b) is true exactly when normalizePhone(a) equals
\* normalizePhone(b), that is when a and b have the same digits in the same
\* order; the relation is reflexive, symmetric and transitive.
EqualIffSameDigits ==
    fnDone =>
        /\ fnOut.ab <=> (NormalizePhone(fnIn.a) = NormalizePhone(fnIn.b))
        /\ fnOut.ab <=> (DigitsOnly(fnIn.a) = DigitsOnly(fnIn.b))
        /\ fnOut.aa
        /\ fnOut.ab <=> fnOut.ba
        /\ (fnOut.ab /\ fnOut.bc) => fnOut.ac

\* C14 witness: two different strings with the same digits compared equal
DifferentlyWrittenEqual ==
    /\ fnDone
    /\ fnIn.a # fnIn.b
    /\ DigitsOnly(fnIn.a) = DigitsOnly(fnIn.b)
    /\ DigitsOnly(fnIn.a) # <<>>
    /\ fnOut.ab

-----------------------------------------------------------------------------
(* part_000 matchesUrlPattern.                                             *)

MaxPatterns == 2

\* "/TRACK/*"
P_trackUpper == <<"/", "T", "R", "A", "C", "K", "/", "*">>
\* "/ls.js"
P_lsjs == <<"/", "l", "s", ".", "j", "s">>
\* "/t*k/*c"
P_twoStars == <<"/", "t", "*", "k", "/", "*", "c">>
\* "*"
P_star == <<"*">>
\* "https://x.io/Track/ABC"
U_pathUpper ==
    <<"h", "t", "t", "p", "s", ":", "/", "/", "x", ".", "i", "o", "/", "T",
      "r", "a", "c", "k", "/", "A", "B", "C">>
\* "https://x.io/lsxjs"
U_lsxjs ==
    <<"h", "t", "t", "p", "s", ":", "/", "/", "x", ".", "i", "o", "/", "l",
      "s", "x", "j", "s">>
\* "https://x.io/v2/track/a"
U_pathInside ==
    <<"h", "t", "t", "p", "s", ":", "/", "/", "x", ".", "i", "o", "/", "v",
      "2", "/", "t", "r", "a", "c", "k", "/", "a">>
\* "https://track/"
U_hostTrack ==
    <<"h", "t", "t", "p", "s", ":", "/", "/", "t", "r", "a", "c", "k", "/">>

PatternUrls ==
    {<<>>, U_path, U_tracking, U_pathInQuery, U_pathUpper, U_upper, U_cdn,
     U_lsxjs, U_pathInside, U_hostTrack, U_script, U_noScheme}

TestPatterns == {P_track, P_trackUpper, P_lsjs, P_twoStars, P_star, P_swap}

InitPattern ==
    /\ fnIn \in [url : PatternUrls,
                 patterns : UNION {[1..n -> TestPatterns] : n \in 0..MaxPatterns}]
    /\ fnOut = <<>>
    /\ fnDone = FALSE
    /\ MainIdle

CallMatchesUrlPattern ==
    /\ ~fnDone
    /\ fnOut' = MatchesUrlPattern(fnIn.url, fnIn.patterns)
    /\ fnDone' = TRUE
    /\ UNCHANGED <<fnIn, mainVars, simpleVars, ghostVars, uiVars>>

SpecPattern == InitPattern /\ [][CallMatchesUrlPattern]_vars

\* The first position >= from at which sub occurs in s, 0 when there is none
FirstAt(s, sub, from) ==
    LET at == {i \in from..(Len(s) - Len(sub) + 1) :
                  SubSeq(s, i, i + Len(sub) - 1) = sub}
    IN IF at = {} THEN 0 ELSE CHOOSE i \in at : \A j \in at : i <= j

RECURSIVE InOrder(_, _, _, _)
\* The literal pieces segs[k..] occur in s one behind the other, from position
\* from on, with any run of characters between them
InOrder(segs, k, s, from) ==
    IF k > Len(segs) THEN TRUE
    ELSE LET at == FirstAt(s, segs[k], from)
         IN at # 0 /\ InOrder(segs, k + 1, s, at + Len(segs[k]))

\* pattern read as a wildcard pattern: the pieces between its '*' are
\* literals and each '*' is any run of characters
WildcardMatches(pattern, path) == InOrder(SplitOn(pattern, "*"), 1, path, 1)

\* The path of a URL the parser accepts, lowercased
LowerPath(url) == ParseUrl(ToLowerCase(url)).pathname

\* C15: for a URL that parses, matchesUrlPattern answers whether one of the
\* patterns, each '*' read as any run of characters and every other character
\* as a literal, is found in the URL's path without regard to case; /track/*
\* matches the path /track/abc123 and not the path /tracking/abc.
WildcardOverPath ==
    (fnDone /\ fnIn.url # <<>> /\ ParseUrl(fnIn.url).ok) =>
        /\ fnOut <=> \E i \in 1..Len(fnIn.patterns) :
                        WildcardMatches(ToLowerCase(fnIn.patterns[i]),
                                        LowerPath(fnIn.url))
        /\ (fnIn.url = U_path /\ fnIn.patterns = <<P_track>>) => fnOut
        /\ (fnIn.url = U_tracking /\ fnIn.patterns = <<P_track>>) => ~fnOut

\* C15 witness: /TRACK/* was matched against the path /Track/ABC, and found
TrackMatchedIgnoringCase ==
    /\ fnDone
    /\ fnIn.url = U_pathUpper
    /\ fnIn.patterns = <<P_trackUpper>>
    /\ fnOut = TRUE

-----------------------------------------------------------------------------
(* utils.js findPhoneNumbersInElement, with a root that may be absent.     *)

\* "555.123.4567 or 888-999-8888"
R_two ==
    R_dots \o <<" ", "o", "r", " ">> \o R_dash

FindNodes ==
    {NoNode, TextNode(R_paren, "Header"), TextNode(R_dots, "Content"),
     TextNode(R_short, "Content"), TextNode(R_two, "Content"),
     TextNode(R_words, "Content"), TelLink(R_plus, "Content"),
     TelLink(R_short, "Content")}

\* The argument: document.body with two phone-bearing slots, or no element
\* (document.body is null until the parser has reached <body>)
FindInputs ==
    {[present |-> TRUE, element |-> <<a, b>>] : a \in FindNodes, b \in FindNodes}
    \cup {[present |-> FALSE, element |-> EmptyDom]}

InitFind ==
    /\ fnIn \in FindInputs
    /\ fnOut = <<>>
    /\ fnDone = FALSE
    /\ MainIdle

\* findPhoneNumbersInElement(element): document.createTreeWalker(element, ...)
\* is its first call, and it throws a TypeError for a root that is no Node
CallFindPhoneNumbersInElement ==
    /\ ~fnDone
    /\ fnOut' = IF fnIn.present
                THEN [threw   |-> FALSE,
                      results |-> FindPhoneNumbersInElement(fnIn.element)]
                ELSE [threw |-> TRUE, results |-> <<>>]
    /\ fnDone' = TRUE
    /\ UNCHANGED <<fnIn, mainVars, simpleVars, ghostVars, uiVars>>

SpecFind == InitFind /\ [][CallFindPhoneNumbersInElement]_vars

\* C16: findPhoneNumbersInElement called with an absent root element returns
\* an empty result and raises no error.
AbsentRootGivesEmpty ==
    (fnDone /\ ~fnIn.present) => (~fnOut.threw /\ fnOut.results = <<>>)

-----------------------------------------------------------------------------
(* utils.js getElementLocation.                                            *)

\* "header"
K_header == <<"h", "e", "a", "d", "e", "r">>

\* "footer"
K_footer == <<"f", "o", "o", "t", "e", "r">>

\* "sidebar"
K_sidebar == <<"s", "i", "d", "e", "b", "a", "r">>

\* "contact"
K_contact == <<"c", "o", "n", "t", "a", "c", "t">>

\* "phone"
N_phone == <<"p", "h", "o", "n", "e">>

\* "site-header"
N_siteHeader == <<"s", "i", "t", "e", "-", "h", "e", "a", "d", "e", "r">>

\* "Contact-Box"
N_contactBox == <<"C", "o", "n", "t", "a", "c", "t", "-", "B", "o", "x">>

\* "contact"
N_contact == <<"c", "o", "n", "t", "a", "c", "t">>

\* "footer sidebar"
N_footerSidebar == <<"f", "o", "o", "t", "e", "r", " ", "s", "i", "d", "e", "b", "a", "r">>

\* "Header"
N_Header == <<"H", "e", "a", "d", "e", "r">>

\* "footer1"
N_footer1 == <<"f", "o", "o", "t", "e", "r", "1">>

\* "main"
N_main == <<"m", "a", "i", "n">>

\* The tag names closest() is asked for
Landmarks == {"header", "footer", "nav", "aside", "form"}

\* An element as getElementLocation reads it: tags are the tag names of the
\* element and its ancestors (closest starts at the element itself),
\* contactAbove says that an ancestor has a class attribute containing
\* "contact", className and id are the element's own
TestElements ==
    [tags         : SUBSET Landmarks,
     contactAbove : BOOLEAN,
     className    : {<<>>, N_phone, N_siteHeader, N_contactBox, N_contact,
                     N_footerSidebar},
     id           : {<<>>, N_Header, N_footer1, N_main}]

\* element.closest('[class*="contact"]'): the attribute value is compared as
\* written
ClosestContact(element) ==
    element.contactAbove \/ Includes(element.className, K_contact)

\* if (cond) locations.push(label)
PushIf(cond, label) == IF cond THEN <<label>> ELSE <<>>

\* classList.includes(word) || id.includes(word)
NameHas(element, word) ==
    \/ Includes(ToLowerCase(element.className), word)
    \/ Includes(ToLowerCase(element.id), word)

\* The locations array of getElementLocation after its ten tests
LocationsOf(element) ==
    PushIf("header" \in element.tags, "Header")
    \o PushIf("footer" \in element.tags, "Footer")
    \o PushIf("nav" \in element.tags, "Navigation")
    \o PushIf("aside" \in element.tags, "Sidebar")
    \o PushIf("form" \in element.tags, "Form")
    \o PushIf(ClosestContact(element), "Contact")
    \o PushIf(NameHas(element, K_header), "Header")
    \o PushIf(NameHas(element, K_footer), "Footer")
    \o PushIf(NameHas(element, K_sidebar), "Sidebar")
    \o PushIf(NameHas(element, K_contact), "Contact")

RECURSIVE Join(_)
\* locations.join(', ')
Join(list) ==
    IF Len(list) = 0 THEN ""
    ELSE IF Len(list) = 1 THEN list[1]
    ELSE list[1] \o ", " \o Join(Tail(list))

\* locations.length > 0 ? locations.join(', ') : 'Content'
LocationOf(element) ==
    IF Len(LocationsOf(element)) > 0 THEN Join(LocationsOf(element))
    ELSE "Content"

InitLocation ==
    /\ fnIn \in TestElements
    /\ fnOut = <<>>
    /\ fnDone = FALSE
    /\ MainIdle

CallGetElementLocation ==
    /\ ~fnDone
    /\ fnOut' = LocationOf(fnIn)
    /\ fnDone' = TRUE
    /\ UNCHANGED <<fnIn, mainVars, simpleVars, ghostVars, uiVars>>

SpecLocation == InitLocation /\ [][CallGetElementLocation]_vars

\* The labels of the landmarks and keywords that match an element
MatchingLabels(element) ==
    {l \in {"Header", "Footer", "Navigation", "Sidebar", "Form", "Contact"} :
        \/ l = "Header" /\ ("header" \in element.tags \/ NameHas(element, K_header))
        \/ l = "Footer" /\ ("footer" \in element.tags \/ NameHas(element, K_footer))
        \/ l = "Navigation" /\ "nav" \in element.tags
        \/ l = "Sidebar" /\ ("aside" \in element.tags \/ NameHas(element, K_sidebar))
        \/ l = "Form" /\ "form" \in element.tags
        \/ l = "Contact" /\ (ClosestContact(element) \/ NameHas(element, K_contact))}

\* The lists that hold each label of a set exactly once
ListingsOf(labels) ==
    {list \in [1..Cardinality(labels) -> labels] :
        \A l \in labels : \E i \in 1..Len(list) : list[i] = l}

\* C17: getElementLocation returns 'Content' exactly when no landmark and no
\* keyword matches; otherwise it returns the matching labels joined by ', ',
\* each label once.
LocationIsLabelSet ==
    fnDone =>
        IF MatchingLabels(fnIn) = {}
        THEN fnOut = "Content"
        ELSE \E list \in ListingsOf(MatchingLabels(fnIn)) : fnOut = Join(list)

-----------------------------------------------------------------------------
(* The content script's state machine: claims checked under Spec.          *)

\* C2: after a rescan command the three collections hold only entries made
\* by a scan step that ran after that command: every entry of
\* detectedTrackers, originalNumbers and currentNumbers was made when the
\* number of rescans handled was what it is now.
EntriesAreOfThisScan ==
    /\ \A i \in 1..Len(detectedTrackers) : detectedTrackers[i].scan = rescans
    /\ \A i \in 1..Len(originalNumbers) : originalNumbers[i].scan = rescans
    /\ \A i \in 1..Len(currentNumbers) : currentNumbers[i].scan = rescans

\* C2 witness: a rescan was handled and the three collections are filled
\* again
RescanRefilled ==
    /\ rescans > 0
    /\ detectedTrackers # <<>>
    /\ originalNumbers # <<>>
    /\ currentNumbers # <<>>

\* C3 as amended: once originalNumbers holds a number, no event other than a
\* rescan command adds to it or changes it.
OriginalsFrozenOnceFilled ==
    [][(originalNumbers # <<>> /\ rescans' = rescans)
          => originalNumbers' = originalNumbers]_vars

\* C3 witness: no rescan was handled, originalNumbers is filled, and a later
\* scan has found a number on the page that originalNumbers does not hold
OriginalsKeptWhilePageMoved ==
    /\ rescans = 0
    /\ originalNumbers # <<>>
    /\ \E k \in KeysOf(currentNumbers) : k \notin KeysOf(originalNumbers)

\* C3 as stated: once captureOriginalNumbers has run over an existing body,
\* no event other than a rescan command adds to or changes originalNumbers.
OriginalsFrozenOnceCaptured ==
    [][(captured /\ rescans' = rescans)
          => originalNumbers' = originalNumbers]_vars

\* C4: the scanComplete value getDetection returns is false before the first
\* scan of the current numbers has finished and true after it.
ScanCompleteIffScanned == DetectionResponse.scanComplete <=> scanned

\* C7: detectedTrackers never holds an inline-signature entry of a provider
\* behind a domain or pattern entry of the same provider.
NoInlineAfterExternal ==
    \A i, j \in 1..Len(detectedTrackers) :
        (/\ i < j
         /\ detectedTrackers[i].providerId = detectedTrackers[j].providerId
         /\ detectedTrackers[i].matchType \in MatchKinds)
            => ~detectedTrackers[j].isInline

\* C8: the count on the badge and the count in the popup's status line are
\* the number of distinct providerId values of the detectedTrackers they
\* were computed from.
CountIsDistinctProviders ==
    /\ lastUpdate # <<>>
          => badgeText = UpdateBadge(Cardinality(lastUpdate[1]))
    /\ popupView.statusCount # <<>>
          => popupView.statusCount = <<Cardinality(popupView.shownIds)>>

\* C9: once loading the provider table has failed and the page has loaded
\* with no timer of the content script pending, the provider list and
\* detectedTrackers are empty, the numbers were captured and scanned,
\* scanComplete is true and, the context being valid, a result was emitted.
FailedLoadStillScans ==
    (/\ loadFailed
     /\ readyState = "complete"
     /\ loadTimers = 0 /\ scanTimers = 0 /\ updateTimer = 0)
        => /\ providers = <<>>
           /\ detectedTrackers = <<>>
           /\ captured /\ scanned
           /\ scanComplete
           /\ contextValid => stored # <<>>

\* C10: detectedTrackers holds at most one globalVariable entry for each
\* (providerId, variable) pair.
OneEntryPerGlobalVariable ==
    \A i, j \in 1..Len(detectedTrackers) :
        (/\ detectedTrackers[i].matchType = "globalVariable"
         /\ detectedTrackers[j].matchType = "globalVariable"
         /\ detectedTrackers[i].providerId = detectedTrackers[j].providerId
         /\ detectedTrackers[i].globalVariable
                = detectedTrackers[j].globalVariable)
            => i = j

\* C10 witness: a detection pass ran after a globalVariable entry was made
\* (its domain entry lies behind it) and the probe of that pass has run and
\* reported the variable again
ProbeReportedAgain ==
    /\ contextValid
    /\ probes = 0
    /\ \E i, j \in 1..Len(detectedTrackers) :
          /\ i < j
          /\ detectedTrackers[i].matchType = "globalVariable"
          /\ detectedTrackers[j].matchType = "domain"

\* A number map is well formed: every key is a digit string of length 10, or
\* of length 11 starting with 1; no key is held twice; each entry's normalized
\* field is its key; no list of locations holds a location twice
WellFormed(map) ==
    /\ \A i \in 1..Len(map) :
          /\ IsDigitString(map[i].key)
          /\ \/ Len(map[i].key) = 10
             \/ Len(map[i].key) = 11 /\ map[i].key[1] = "1"
          /\ map[i].normalized = map[i].key
          /\ \A a, b \in 1..Len(map[i].locations) :
                map[i].locations[a] = map[i].locations[b] => a = b
    /\ \A i, j \in 1..Len(map) : map[i].key = map[j].key => i = j

\* C18: in every reachable state every key of originalNumbers and of
\* currentNumbers is a digits-only string of length 10, or of length 11
\* starting with 1; each map holds one entry per distinct digit string, whose
\* normalized field equals its key, and no entry lists a location twice.
NumberMapsWellFormed ==
    /\ WellFormed(originalNumbers)
    /\ WellFormed(currentNumbers)

\* C18 witness: the page holds one number in two writings in one text node
\* and a tel: link with an invalid number; each map holds one entry, with
\* one location, and currentNumbers has counted the number twice
OccurrencesMerged ==
    /\ dom = <<TextNode(R_twice, "Footer"), TelLink(R_eleven, "Content")>>
    /\ Len(originalNumbers) = 1
    /\ originalNumbers[1].locations = <<"Footer">>
    /\ Len(currentNumbers) = 1
    /\ currentNumbers[1].count = 2
    /\ currentNumbers[1].locations = <<"Footer">>

-----------------------------------------------------------------------------
(* Bursts of page changes on a settled page: claims checked under           *)
(* SpecBurst.                                                               *)

MaxBurst == 2

\* The content script at rest on page d: providers loaded, the load listener
\* and the 3000 ms probe done, the debounced update sent and received
Settled(d) ==
    /\ contextValid = TRUE
    /\ body = TRUE /\ readyState = "complete" /\ dom = d
    /\ scripts = InitialScripts
    /\ globals = {}
    /\ records = {}
    /\ phase = "ready" /\ providers = ProviderTable
    /\ originalNumbers = CaptureOriginalNumbers(<<>>, d, 0)
    /\ currentNumbers = ScanCurrentNumbers(d, 0)
    /\ detectedTrackers =
           DetectTrackingScripts(<<>>, ProviderTable, InitialScripts, 0)
    /\ scanComplete = TRUE
    /\ mutationObserver = "observing" /\ updateTimer = 0
    /\ reprobeTimers = 0 /\ probes = 0
    /\ dclListener = FALSE /\ loadTimers = 0
    /\ inbox = <<>> /\ stored = <<Results>> /\ badgeText = BadgeFor(Results)
    /\ tabProviders = {detectedTrackers[i].provider :
                           i \in 1..Len(detectedTrackers)}
    /\ popupView = [status |-> "", statusCount |-> <<>>, trackerCount |-> 0,
                    shownIds |-> {}]
    /\ loadFailed = FALSE /\ rescans = 0 /\ captured = TRUE
    /\ scanned = TRUE /\ lastUpdate = <<ProviderIds(detectedTrackers)>>
    /\ pageEvents = 0
    /\ scanTimers = 0 /\ observers = 0 /\ callbacks = 0
    /\ GhostIdle
    /\ UiIdle
    /\ FnIdle

InitBurst == \E d \in InitialDoms : Settled(d)

\* Page changes, each delivered to the observer, with the debounce timer
\* free to fire or not between them
BurstNext ==
    \/ \E s \in DOMAIN dom : \E node \in PageNodes \cup {NoNode} :
           ChangeNodeWithin(s, node, MaxBurst)
    \/ ObserverCallback
    \/ UpdateTimerFires
    \/ HandleUpdateDetection

SpecBurst == InitBurst /\ [][BurstNext]_vars

\* C19: between two firings of the 150 ms debounce timer, that is over one
\* burst of phone-related mutation notifications, scanCurrentNumbers runs
\* at most once.
OneScanPerBurst == burstScans <= 1

\* C20: once a rescan command was handled, no load-stabilization or
\* global-variable probe timer started before it fires, and an observer
\* subscribed before it delivers no callback.
NoStaleCallbacks == ~staleRan
-----------------------------------------------------------------------------
(* Order of capture and scan; observers and timers: claims checked under    *)
(* Spec.                                                                    *)

\* C21: in every state of a page visit, initially and after a rescan,
\* currentNumbers is filled only when captureOriginalNumbers has run over
\* the body in this scan; without a body neither step has run over the page;
\* and once the document is past DOMContentLoaded an initialized content
\* script has captured.
CaptureBeforeScan ==
    /\ scanned => captured
    /\ currentNumbers # <<>> => captured
    /\ ~body => /\ ~captured /\ ~scanned
                /\ originalNumbers = <<>> /\ currentNumbers = <<>>
    /\ (phase = "ready" /\ readyState # "loading") => captured

\* C21 witness: the first run found no body and emitted empty maps; the
\* DOMContentLoaded listener then captured and scanned the page
CapturedAtDomReady ==
    /\ dclListener
    /\ readyState = "interactive"
    /\ rescans = 0 /\ pageEvents = 0
    /\ stored # <<>> /\ stored[1].originalNumbers = <<>>
    /\ captured
    /\ originalNumbers # <<>> /\ currentNumbers # <<>>

\* C22: no step both captures the original numbers and takes a snapshot of
\* the current numbers: the step in which captureOriginalNumbers runs over
\* the body leaves currentNumbers as it was, the snapshot waiting for the
\* stabilization delay.
ScanWaitsAfterCapture ==
    [][(~captured /\ captured') => (~scanned' /\ currentNumbers' = <<>>)]_vars

\* An entry made for an external script element
IsScriptUrlEntry(t) == ~t.isInline /\ t.matchType # "globalVariable"

\* C23: for every provider, detectedTrackers holds at most one script-URL
\* entry per matching external script element, however many detection
\* passes have run.
OneEntryPerScriptElement ==
    \A i, j \in 1..Len(detectedTrackers) :
        (/\ IsScriptUrlEntry(detectedTrackers[i])
         /\ IsScriptUrlEntry(detectedTrackers[j])
         /\ detectedTrackers[i].providerId = detectedTrackers[j].providerId
         /\ detectedTrackers[i].element = detectedTrackers[j].element)
            => i = j

\* C24: the step that handles a rescan leaves originalNumbers and
\* currentNumbers with the same key set, so that detectNumberSwaps over them
\* is empty, whatever the two maps held before.
RescanLeavesNoSwaps ==
    [][(rescans' = rescans + 1) =>
           /\ KeysOf(originalNumbers') = KeysOf(currentNumbers')
           /\ DetectNumberSwaps(originalNumbers', currentNumbers') = <<>>]_vars

\* C24 witness: the last emission, made before the rescan, reported a swap;
\* the rescan has been handled and the maps now give none
SwapGoneAfterRescan ==
    /\ rescans = 1
    /\ stored # <<>>
    /\ stored[1].swaps # <<>>
    /\ originalNumbers # <<>>
    /\ \A i \in 1..Len(originalNumbers) : originalNumbers[i].scan = 1
    /\ KeysOf(originalNumbers) = KeysOf(currentNumbers)
    /\ DetectNumberSwaps(originalNumbers, currentNumbers) = <<>>

\* C25: while the observer is subscribed and has processed every mutation
\* batch delivered to it, the key set of currentNumbers is the set of the
\* valid numbers present in the page, also after a batch that removed the
\* last occurrence of a number.
CurrentFollowsPage ==
    (/\ mutationObserver = "observing"
     /\ contextValid
     /\ records = {})
        => KeysOf(currentNumbers) = KeysOf(ScanCurrentNumbers(dom, rescans))

\* C26: at most one update timer is pending at any time, and the background
\* and the storage receive a result only in a step in which the one pending
\* timer fires with the context valid: one emission for the calls of
\* updateBadgeAndStorage made since the timer last fired, carrying the
\* trackers, numbers and swaps of the firing moment.
OneEmissionPerQuietPeriod ==
    /\ [](updateTimer <= 1)
    /\ [][(inbox' # inbox /\ Len(inbox') >= Len(inbox)) \/ stored' # stored
              => /\ contextValid
                 /\ updateTimer = 1 /\ updateTimer' = 0
                 /\ inbox' = Append(inbox, Results)
                 /\ stored' = <<Results>>]_vars
    /\ [][(updateTimer' < updateTimer /\ contextValid)
              => inbox' = Append(inbox, Results)]_vars

\* C26 witness: runDetection and then an observer callback called
\* updateBadgeAndStorage with nothing emitted in between, and one timer is
\* pending
SecondCallKeptOneTimer ==
    /\ contextValid
    /\ burstScans = 1
    /\ stored = <<>>
    /\ updateTimer = 1

\* C27: at most one mutation observer is subscribed to the page body at any
\* time in one page visit, however many times runDetection runs, and one
\* mutation batch causes at most one observer callback.
AtMostOneObserver == observers <= 1 /\ callbacks <= 1

-----------------------------------------------------------------------------
(* The side panel (unnamed/part_000 1-160): claims checked under SpecPanel.  *)
(* panel.currentTabId and panel.isScanning are its two variables; changing  *)
(* counts handleTabChange calls awaiting chrome.tabs.get, loading is the    *)
(* tab a getDetection request is in flight to, storage the tab whose stored *)
(* results are being read, timers the pending setTimeout callbacks; shown   *)
(* is the tab whose results are displayed (0 after clearResults) and        *)
(* shownFor the currentTabId at the moment they were displayed.             *)

MaxPanelEvents == 3

Tabs == {1, 2}

\* loadDetectionResults up to its first await
LoadDetectionResults(p) ==
    IF p.isScanning THEN p
    ELSE [p EXCEPT !.isScanning = TRUE, !.loading = p.currentTabId]

\* The DOMContentLoaded listener of the panel: updateCurrentTab finds the
\* active tab t, the listeners are registered, the first load starts
PanelDomContentLoaded(t) ==
    /\ panel.currentTabId = 0
    /\ panel' = LoadDetectionResults([panel EXCEPT !.currentTabId = t])
    /\ UNCHANGED <<mainVars, simpleVars, ghostVars, cookieJob, blocking,
                   fnVars>>

\* handleTabChange up to its await chrome.tabs.get
HandleTabChange(t) ==
    /\ panel.currentTabId # 0
    /\ panel.events < MaxPanelEvents
    /\ panel' = [panel EXCEPT !.currentTabId = t, !.changing = @ + 1,
                              !.events = @ + 1]
    /\ UNCHANGED <<mainVars, simpleVars, ghostVars, cookieJob, blocking,
                   fnVars>>

\* handleTabChange after the await: clearResults, setTimeout 500
TabGetResolves ==
    /\ panel.changing > 0
    /\ panel' = [panel EXCEPT !.changing = @ - 1, !.shown = 0,
                              !.timers = @ + 1]
    /\ UNCHANGED <<mainVars, simpleVars, ghostVars, cookieJob, blocking,
                   fnVars>>

\* handleTabUpdate(tabId, changeInfo): changeInfo.url is set (hasUrl),
\* changeInfo.status is 'complete' (complete)
HandleTabUpdate(t, hasUrl, complete) ==
    /\ panel.currentTabId # 0
    /\ panel.events < MaxPanelEvents
    /\ panel' =
           IF t # panel.currentTabId
           THEN [panel EXCEPT !.events = @ + 1]
           ELSE [panel EXCEPT !.events = @ + 1,
                              !.shown = IF hasUrl THEN 0 ELSE @,
                              !.timers = IF complete THEN @ + 1 ELSE @]
    /\ UNCHANGED <<mainVars, simpleVars, ghostVars, cookieJob, blocking,
                   fnVars>>

\* A setTimeout callback of handleTabChange or handleTabUpdate
PanelTimerFires ==
    /\ panel.timers > 0
    /\ panel' = LoadDetectionResults([panel EXCEPT !.timers = @ - 1])
    /\ UNCHANGED <<mainVars, simpleVars, ghostVars, cookieJob, blocking,
                   fnVars>>

\* handleMessage for a detectionUpdated message sent from tab t
HandleMessage(t) ==
    /\ panel.currentTabId # 0
    /\ panel.events < MaxPanelEvents
    /\ panel' = IF t = panel.currentTabId
                THEN LoadDetectionResults([panel EXCEPT !.events = @ + 1])
                ELSE [panel EXCEPT !.events = @ + 1]
    /\ UNCHANGED <<mainVars, simpleVars, ghostVars, cookieJob, blocking,
                   fnVars>>

\* The content script of the tab the request went to answers:
\* displayResults(response), then the finally block
ResponseArrives ==
    /\ panel.loading # 0
    /\ panel' = [panel EXCEPT !.loading = 0, !.isScanning = FALSE,
                              !.shown = panel.loading,
                              !.shownFor = panel.currentTabId]
    /\ UNCHANGED <<mainVars, simpleVars, ghostVars, cookieJob, blocking,
                   fnVars>>

\* sendMessage rejects or answers nothing: loadFromStorage starts with
\* chrome.tabs.get(currentTabId)
ResponseFails ==
    /\ panel.loading # 0
    /\ panel' = [panel EXCEPT !.loading = 0, !.storage = panel.currentTabId]
    /\ UNCHANGED <<mainVars, simpleVars, ghostVars, cookieJob, blocking,
                   fnVars>>

\* loadFromStorage after its awaits: the stored results of the tab read are
\* displayed if there are any; then the finally block of the load
StorageResolves(found) ==
    /\ panel.storage # 0
    /\ panel' = [panel EXCEPT !.storage = 0, !.isScanning = FALSE,
                              !.shown = IF found THEN panel.storage ELSE @,
                              !.shownFor = IF found THEN panel.currentTabId
                                           ELSE @]
    /\ UNCHANGED <<mainVars, simpleVars, ghostVars, cookieJob, blocking,
                   fnVars>>

PanelNext ==
    \/ \E t \in Tabs : PanelDomContentLoaded(t)
    \/ \E t \in Tabs : HandleTabChange(t)
    \/ TabGetResolves
    \/ \E t \in Tabs : \E hasUrl, complete \in BOOLEAN :
           HandleTabUpdate(t, hasUrl, complete)
    \/ PanelTimerFires
    \/ \E t \in Tabs : HandleMessage(t)
    \/ ResponseArrives
    \/ ResponseFails
    \/ \E found \in BOOLEAN : StorageResolves(found)

InitPanel == MainIdle /\ FnIdle

SpecPanel == InitPanel /\ [][PanelNext]_vars

\* C28: whenever the side panel displays results, they are results that
\* were requested for the tab that is the current tab at that moment.
PanelShowsCurrentTab ==
    panel.shown # 0 => panel.shown = panel.shownFor

-----------------------------------------------------------------------------
(* The clearCookies handler of the background (README.md 362-380): claims   *)
(* checked under SpecCookies.  cookieJob.found is the number of cookies     *)
(* getAll returned, completed the cookies whose remove callback has run,    *)
(* deleted those among them that were removed, removed the handler's        *)
(* counter, response the answer sent, completedAtResponse the value of      *)
(* completed when it was sent.                                              *)

MaxCookies == 3

\* The remove callback, () => { removed++ }, whatever the outcome
CountRemovalIfDeleted(removed, ok) == IF ok THEN removed + 1 ELSE removed

CountRemoval(removed, ok) == removed + 1

\* onMessage clearCookies: chrome.cookies.getAll is called, return true
ClearCookiesRequested ==
    /\ cookieJob.phase = "idle"
    /\ cookieJob' = [cookieJob EXCEPT !.phase = "listing"]
    /\ UNCHANGED <<mainVars, simpleVars, ghostVars, panel, blocking, fnVars>>

\* The getAll callback with n cookies: removed = 0, one chrome.cookies.remove
\* per cookie, setTimeout 500
GetAllResolves(n) ==
    /\ cookieJob.phase = "listing"
    /\ cookieJob' = [cookieJob EXCEPT !.phase = "removing", !.found = n,
                                      !.removed = 0]
    /\ UNCHANGED <<mainVars, simpleVars, ghostVars, panel, blocking, fnVars>>

\* The callback of the removal of cookie c, which succeeded (ok) or failed
RemoveCompletes(c, ok) ==
    /\ cookieJob.phase \in {"removing", "answered"}
    /\ c \in 1..cookieJob.found
    /\ c \notin cookieJob.completed
    /\ cookieJob' =
           [cookieJob EXCEPT !.completed = @ \cup {c},
                             !.deleted = IF ok THEN @ \cup {c} ELSE @,
                             !.removed = CountRemoval(@, ok)]
    /\ UNCHANGED <<mainVars, simpleVars, ghostVars, panel, blocking, fnVars>>

\* The 500 ms timer fires: sendResponse({success: true, removed: removed})
ResponseTimerFires ==
    /\ cookieJob.phase = "removing"
    /\ cookieJob' =
           [cookieJob EXCEPT !.phase = "answered",
                             !.response = <<[success |-> TRUE,
                                             removed |-> cookieJob.removed]>>,
                             !.completedAtResponse = cookieJob.completed]
    /\ UNCHANGED <<mainVars, simpleVars, ghostVars, panel, blocking, fnVars>>

CookiesNext ==
    \/ ClearCookiesRequested
    \/ \E n \in 0..MaxCookies : GetAllResolves(n)
    \/ \E c \in 1..MaxCookies : \E ok \in BOOLEAN : RemoveCompletes(c, ok)
    \/ ResponseTimerFires

SpecCookies == InitPanel /\ [][CookiesNext]_vars

\* C29: the removed count of the response is the number of cookies found
\* whose removal callback had run when the response was sent, whatever the
\* order of the removal callbacks and the 500 ms timer.
RemovedIsCompletedCount ==
    cookieJob.response # <<>> =>
        /\ cookieJob.response[1].removed =
               Cardinality(cookieJob.completedAtResponse)
        /\ cookieJob.completedAtResponse \subseteq 1..cookieJob.found

\* C29 witness: the timer fired between two removal callbacks: one of three
\* removals had completed, the answer says 1, the others completed later
AnsweredBetweenRemovals ==
    /\ cookieJob.phase = "answered"
    /\ cookieJob.found = 3
    /\ cookieJob.response[1].removed = 1
    /\ Cardinality(cookieJob.completed) = 3

-----------------------------------------------------------------------------
(* The blocking toggle of the popup (popup.js 289-311) and of the side      *)
(* panel (part_000 637-658) with the enableBlocking / disableBlocking       *)
(* handlers of the background (README.md 382-404): claims checked under     *)
(* SpecBlocking.  blocking.ui is the document holding the toggle, checked   *)
(* the toggle, previous its position before the last change event, rulesets *)
(* whether tracking_blocklist is enabled, request the message in flight,    *)
(* answer the background's response not yet received, failed how the last   *)
(* request failed, reloaded whether the handler reloaded the page for the   *)
(* last change event, errorShown whether it showed the error.               *)

MaxToggles == 4

\* The popup or the side panel is opened: DOMContentLoaded registers the
\* change handler; the toggle of a new document is unchecked
SetupEventListeners(ui) ==
    /\ blocking.ui = "none"
    /\ blocking.toggles < MaxToggles
    /\ blocking' = [blocking EXCEPT !.ui = ui, !.checked = FALSE,
                                    !.previous = FALSE, !.failed = "none",
                                    !.reloaded = FALSE, !.errorShown = FALSE]
    /\ UNCHANGED <<mainVars, simpleVars, ghostVars, panel, cookieJob, fnVars>>

\* change event: enabled = e.target.checked, sendMessage enableBlocking or
\* disableBlocking, the handler awaits the answer
ToggleChanged ==
    /\ blocking.ui # "none"
    /\ blocking.request = "none"
    /\ blocking.toggles < MaxToggles
    /\ LET enabled == ~blocking.checked
       IN  blocking' =
               [blocking EXCEPT !.checked = enabled,
                                !.previous = blocking.checked,
                                !.request = IF enabled THEN "enableBlocking"
                                                       ELSE "disableBlocking",
                                !.failed = "none", !.reloaded = FALSE,
                                !.errorShown = FALSE,
                                !.toggles = @ + 1]
    /\ UNCHANGED <<mainVars, simpleVars, ghostVars, panel, cookieJob, fnVars>>

\* The background's handler: updateEnabledRulesets resolved (ok) and
\* sendResponse({success: true}), or rejected and
\* sendResponse({success: false, error})
BackgroundAnswers(ok) ==
    /\ blocking.request # "none"
    /\ blocking.answer = <<>>
    /\ blocking' =
           [blocking EXCEPT !.rulesets = IF ok
                                         THEN blocking.request = "enableBlocking"
                                         ELSE @,
                            !.answer = <<[success |-> ok]>>,
                            !.failed = IF ok THEN "none" ELSE "refused"]
    /\ UNCHANGED <<mainVars, simpleVars, ghostVars, panel, cookieJob, fnVars>>

\* The await resolves with the answer, whose value the handler discards:
\* alert 'Page will reload', chrome.tabs.reload, and the popup closes itself
AnswerReceived ==
    /\ blocking.request # "none"
    /\ blocking.answer # <<>>
    /\ blocking' = [blocking EXCEPT !.request = "none", !.answer = <<>>,
                                    !.reloaded = TRUE,
                                    !.ui = IF @ = "popup" THEN "none" ELSE @]
    /\ UNCHANGED <<mainVars, simpleVars, ghostVars, panel, cookieJob, fnVars>>

\* The await rejects (no receiver for the message): catch shows the error
\* and sets e.target.checked = !enabled
MessageRejected ==
    /\ blocking.request # "none"
    /\ blocking.answer = <<>>
    /\ blocking' =
           [blocking EXCEPT !.request = "none", !.failed = "rejected",
                            !.errorShown = TRUE,
                            !.checked = ~blocking.checked]
    /\ UNCHANGED <<mainVars, simpleVars, ghostVars, panel, cookieJob, fnVars>>

\* The side panel is closed by the user
PanelClosed ==
    /\ blocking.ui = "panel"
    /\ blocking.request = "none"
    /\ blocking' = [blocking EXCEPT !.ui = "none"]
    /\ UNCHANGED <<mainVars, simpleVars, ghostVars, panel, cookieJob, fnVars>>

BlockingNext ==
    \/ \E ui \in {"popup", "panel"} : SetupEventListeners(ui)
    \/ ToggleChanged
    \/ \E ok \in BOOLEAN : BackgroundAnswers(ok)
    \/ AnswerReceived
    \/ MessageRejected
    \/ PanelClosed

SpecBlocking == InitPanel /\ [][BlockingNext]_vars

\* C30: once the handler of a change event has finished, if the request
\* failed (the message was rejected, or the background answered
\* success=false) the toggle is back at its previous position and the page
\* was not reloaded.
FailedToggleReverts ==
    (blocking.request = "none" /\ blocking.failed # "none") =>
        /\ blocking.checked = blocking.previous
        /\ ~blocking.reloaded

=============================================================================
